---- MODULE Spec2Model ----
(***************************************************************************)
(* Command resolution, authorization and broadcast-state engine of the    *)
(* chat server, together with the handlers of config/commands.js that     *)
(* exercise it.                                                           *)
(*                                                                         *)
(* commands.js holds the command table and the handler bodies.  The       *)
(* dispatcher that binds `this` (sendReply, can, canBroadcast, parse) and  *)
(* the user object's can() live in command-parser.js and users.js; they   *)
(* are modelled after sections 4.1-4.4 of the specification and after the *)
(* header comment of commands.js (lines 40-141).                          *)
(***************************************************************************)
EXTENDS Integers, Sequences, FiniteSets, TLC

VARIABLES
    stack,              \* InvocationContexts of the dispatch in progress, outermost first
    depth,              \* re-entrancy counter per actor+room pair
    out,                \* outbound messages of the dispatch in progress
    sinceBroadcast,     \* per room/user: time since the last broadcast, up to the cooldown
    rulesLink,          \* room.rulesLink
    chatRoomData,       \* room.chatRoomData.rulesLink (persisted copy), or NoData
    potd,               \* config.potd
    line,               \* command token of the latest line, until its dispatch ends
    rank,               \* global rank of each user
    roomAuth            \* room-scoped rank override of each user, or NoRank

\* one evaluation of dexsearch
VARIABLES
    qTargets,           \* var targets = target.split(',')
    qBroadcasting,      \* this.broadcasting
    qForIn,             \* whether this engine's for-in visits keys added during the loop
    qPc,                \* position of the handler: "parse", "filter", "done"
    qIndex,             \* index of the next piece, then of the next pass
    qState,             \* searches, showAll and megaSearch
    qDex,               \* var dex
    qReply              \* what the handler has replied, or the error it has thrown

\* one evaluation of dice
VARIABLES
    diceTarget,         \* the target text
    dicePc,             \* position of the handler: "start", "roll", "done"
    rolls,              \* var rolls
    total,              \* var total
    diceReply           \* what the handler has replied

coreVars == <<stack, depth, out, sinceBroadcast, rulesLink, chatRoomData, potd,
              line, rank, roomAuth>>
dexVars == <<qTargets, qBroadcasting, qForIn, qPc, qIndex, qState, qDex, qReply>>
diceVars == <<diceTarget, dicePc, rolls, total, diceReply>>
calcVars == <<dexVars, diceVars>>

vars == <<coreVars, calcVars>>

----------------------------------------------------------------------------
(* Actors, rooms, ranks *)

Users == {"u1", "u2"}
Rooms == {"lobby", "tech"}

NoUser == "nobody"
NoRoom == "noroom"
NoData == "nodata"

\* unranked < voice < driver < moderator < leader < admin < owner
Unranked == 0
Voice == 1
Driver == 2
Moderator == 3
Leader == 4
Admin == 5
Owner == 6
Ranks == Unranked .. Owner

NoRank == -1

----------------------------------------------------------------------------
(* Permission Gate *)

\* minimum rank a capability is gated at
RequiredRank(permission) ==
    CASE permission = "broadcast" -> Voice
      [] permission = "alts"      -> Driver
      [] permission = "ip"        -> Moderator
      [] permission = "roommod"   -> Moderator
      [] permission = "potd"      -> Leader
      [] OTHER                    -> Owner

Permissions == {"broadcast", "alts", "ip", "roommod", "potd"}

\* the rank the check uses: the room's override when the room has one
EffectiveRank(user, room) ==
    IF room # NoRoom /\ roomAuth[room][user] # NoRank
    THEN roomAuth[room][user]
    ELSE rank[user]

\* can that lets an actor act on a target of equal rank
can_equal(user, permission, target, room) ==
    IF rank[user] = Owner
    THEN TRUE
    ELSE /\ EffectiveRank(user, room) >= RequiredRank(permission)
         /\ (target = NoUser \/ rank[target] <= EffectiveRank(user, room))

\* user.can(permission, target, room): the silent evaluation.  The global
\* owner rank bypasses the comparison; every other actor needs the gated
\* rank and, when a target is given, a rank strictly above the target's.
can(user, permission, target, room) ==
    IF rank[user] = Owner
    THEN TRUE
    ELSE /\ EffectiveRank(user, room) >= RequiredRank(permission)
         /\ (target = NoUser \/ rank[target] < EffectiveRank(user, room))

----------------------------------------------------------------------------
(* Command table (exports.commands) *)

\* keys whose value is a function
Handlers ==
    {"whois", "ipsearch", "invite", "data", "dexsearch", "learn", "weakness",
     "effectiveness", "uptime", "groups", "website", "forum", "opensource",
     "avatars", "intro", "smogintro", "calc", "cap", "gennext", "othermetas",
     "roomhelp", "restarthelp", "rules", "faq", "tiers", "smogdex",
     "crymeariver", "queenofthecastle", "crushhiswang", "firepunch", "lieren",
     "iceblast", "combatskirts", "nora", "rockshurt", "owch", "treessuck",
     "throw", "spoilerwarning", "iburn", "comeatme", "wukong", "adam", "ama",
     "kissandmakeup", "demon", "lyn", "lucina", "birkal", "potd", "dice",
     "register", "banredirect", "lobbychat", "a", "help", "ruby", "lily",
     "xathoz", "red", "blair", "atom", "fluffy", "lynn", "cosy", "missing1",
     "aaron", "raven", "kolotos"}

\* keys whose value is a string, with that string
Aliases ==
    [k \in {"ip", "getip", "rooms", "altcheck", "alt", "alts", "getalts",
            "stats", "dex", "pokedex", "dsearch", "learnset", "learnall",
            "learn5", "g6learn", "weak", "eff", "type", "matchup",
            "introduction", "mentoring", "smogonintro", "calculator", "om",
            "rule", "banlists", "tier", "analysis", "strategy", "roll", "br",
            "commands", "h", "?", "lyzz"} |->
        CASE k \in {"ip", "getip", "rooms", "altcheck", "alt", "alts", "getalts"} -> "whois"
          [] k \in {"stats", "dex", "pokedex"} -> "data"
          [] k = "dsearch" -> "dexsearch"
          [] k \in {"learnset", "learnall", "learn5", "g6learn"} -> "learn"
          [] k = "weak" -> "weakness"
          [] k \in {"eff", "type", "matchup"} -> "effectiveness"
          [] k = "introduction" -> "intro"
          [] k \in {"mentoring", "smogonintro"} -> "smogintro"
          [] k = "calculator" -> "calc"
          [] k = "om" -> "othermetas"
          [] k = "rule" -> "rules"
          [] k \in {"banlists", "tier"} -> "tiers"
          [] k \in {"analysis", "strategy"} -> "smogdex"
          [] k = "roll" -> "dice"
          [] k = "br" -> "banredirect"
          [] k \in {"commands", "h", "?"} -> "help"
          [] OTHER -> "Lynn"]

\* a handler the table can be extended with: its body re-enters the
\* dispatcher with its own command line
SelfDispatching == {"recurse"}

NotFound == "NotFound"

\* resolve that falls back to the help handler
resolve_fallback(name) ==
    IF name \in Handlers \cup SelfDispatching THEN name
    ELSE IF name \in DOMAIN Aliases
         THEN IF Aliases[name] \in Handlers THEN Aliases[name] ELSE NotFound
         ELSE "help"

\* Alias Resolver: a string entry is a redirect, followed exactly once
resolve(name) ==
    IF name \in Handlers \cup SelfDispatching THEN name
    ELSE IF name \in DOMAIN Aliases
         THEN IF Aliases[name] \in Handlers THEN Aliases[name] ELSE NotFound
         ELSE NotFound

----------------------------------------------------------------------------
(* InvocationContext and the reply channel *)

\* after this many levels of recursion parse errors out
MaxParseRecursion == 10

\* cooldown window between two broadcasts of one user in one room
BroadcastCooldown == 2

NewContext(h, user, room, broadcast, target) ==
    [cmd |-> h, user |-> user, room |-> room, broadcast |-> broadcast,
     target |-> target, broadcasting |-> FALSE, pc |-> "start"]

Top == stack[Len(stack)]

SetTop(f) == [stack EXCEPT ![Len(stack)] = f]

\* a message sent to the actor's connection only
Notice(f, kind, what) ==
    [level |-> Len(stack), kind |-> kind, what |-> what, to |-> f.user,
     logged |-> FALSE]

\* a message added to a room: every occupant gets it and it is kept in the
\* room's visible history
RoomAdd(room, kind, what) ==
    [level |-> Len(stack), kind |-> kind, what |-> what, to |-> room,
     logged |-> TRUE]

\* this.sendReply / this.sendReplyBox: to the room when broadcasting,
\* to the actor otherwise
sendReply(f, what) ==
    IF f.broadcasting
    THEN RoomAdd(f.room, "reply", what)
    ELSE Notice(f, "reply", what)

\* emit msgs and leave the handler at pc
Emit(f, msgs, pc) ==
    /\ out' = out \o msgs
    /\ stack' = SetTop([f EXCEPT !.pc = pc])

----------------------------------------------------------------------------
(* Broadcast Controller *)

CooldownElapsed(user, room) == sinceBroadcast[room][user] >= BroadcastCooldown

\* the three conditions of the Private -> Broadcasting transition
MayBroadcast(f) ==
    /\ f.broadcast
    /\ can(f.user, "broadcast", NoUser, f.room)
    /\ CooldownElapsed(f.user, f.room)

\* canBroadcast that does not look at the cooldown
canBroadcast_nocooldown(f, pcTrue, pcFalse) ==
    IF ~f.broadcast
    THEN /\ stack' = SetTop([f EXCEPT !.pc = pcTrue])
         /\ UNCHANGED <<out, sinceBroadcast>>
    ELSE IF can(f.user, "broadcast", NoUser, f.room)
    THEN /\ stack' = SetTop([f EXCEPT !.broadcasting = TRUE, !.pc = pcTrue])
         /\ sinceBroadcast' = [sinceBroadcast EXCEPT ![f.room][f.user] = 0]
         /\ UNCHANGED out
    ELSE /\ out' = Append(out, Notice(f, "nobroadcast", "permission"))
         /\ stack' = SetTop([f EXCEPT !.pc = pcFalse])
         /\ UNCHANGED sinceBroadcast

\* this.canBroadcast(): the handler goes on at pcTrue when the call returns
\* true and at pcFalse when it returns false
canBroadcast(f, pcTrue, pcFalse) ==
    IF ~f.broadcast
    THEN /\ stack' = SetTop([f EXCEPT !.pc = pcTrue])
         /\ UNCHANGED <<out, sinceBroadcast>>
    ELSE IF MayBroadcast(f)
    THEN /\ stack' = SetTop([f EXCEPT !.broadcasting = TRUE, !.pc = pcTrue])
         /\ sinceBroadcast' = [sinceBroadcast EXCEPT ![f.room][f.user] = 0]
         /\ UNCHANGED out
    ELSE /\ out' = Append(out, Notice(f, "nobroadcast",
                    IF can(f.user, "broadcast", NoUser, f.room)
                    THEN "cooldown" ELSE "permission"))
         /\ stack' = SetTop([f EXCEPT !.pc = pcFalse])
         /\ UNCHANGED sinceBroadcast

----------------------------------------------------------------------------
(* Command Dispatcher *)

AccessDenied(f) == Notice(f, "denied", f.cmd)

\* this.can(permission, target, room): the notice-emitting form; the handler
\* goes on at pcTrue when the call returns true and at pcFalse otherwise
thisCan(f, permission, target, room, pcTrue, pcFalse) ==
    IF can(f.user, permission, target, room)
    THEN /\ stack' = SetTop([f EXCEPT !.pc = pcTrue])
         /\ UNCHANGED out
    ELSE /\ out' = Append(out, AccessDenied(f))
         /\ stack' = SetTop([f EXCEPT !.pc = pcFalse])

\* the command tokens and target texts that are dispatched
CmdTokens == {"whois", "ip", "dexsearch", "dsearch", "help", "rules", "potd",
              "lynn", "lyzz", "recurse", "frobnicate"}

Targets(h) ==
    CASE h = "whois"     -> {""} \cup Users \cup {"ghost"}
      [] h = "dexsearch" -> {"", "tapu", "lc", "ou"}
      [] h = "help"      -> {"dexsearch", "zzz"}
      [] h = "rules"     -> {"", "url80", "url81", " url "}
      [] h = "potd"      -> {"", "pikachu"}
      [] OTHER           -> {""}

\* dispatch(rawLine, actor, room, connection) of a line typed by a user
Dispatch(user, room, broadcast, token, target) ==
    /\ stack = <<>>
    /\ line' = token
    /\ IF resolve(token) = NotFound
       THEN UNCHANGED <<stack, depth>>
       ELSE /\ stack' = <<NewContext(resolve(token), user, room, broadcast, target)>>
            /\ depth' = [depth EXCEPT ![user][room] = @ + 1]
    /\ UNCHANGED <<out, sinceBroadcast, rulesLink, chatRoomData, potd, rank,
                   roomAuth, calcVars>>

\* parse with the limit tested one level too late
parse_late(f, token, target) ==
    IF depth[f.user][f.room] > MaxParseRecursion + 1
    THEN /\ out' = Append(out, Notice(f, "recursion", token))
         /\ stack' = SetTop([f EXCEPT !.pc = "done"])
         /\ UNCHANGED depth
    ELSE IF resolve(token) = NotFound
    THEN /\ stack' = SetTop([f EXCEPT !.pc = "done"])
         /\ UNCHANGED <<out, depth>>
    ELSE /\ stack' = Append(SetTop([f EXCEPT !.pc = "wait"]),
                        NewContext(resolve(token), f.user, f.room, FALSE, target))
         /\ depth' = [depth EXCEPT ![f.user][f.room] = @ + 1]
         /\ UNCHANGED out

\* return this.parse('/' + token + ' ' + target) in the handler of f
parse(f, token, target) ==
    IF depth[f.user][f.room] > MaxParseRecursion
    THEN /\ out' = Append(out, Notice(f, "recursion", token))
         /\ stack' = SetTop([f EXCEPT !.pc = "done"])
         /\ UNCHANGED depth
    ELSE IF resolve(token) = NotFound
    THEN /\ stack' = SetTop([f EXCEPT !.pc = "done"])
         /\ UNCHANGED <<out, depth>>
    ELSE /\ stack' = Append(SetTop([f EXCEPT !.pc = "wait"]),
                        NewContext(resolve(token), f.user, f.room, FALSE, target))
         /\ depth' = [depth EXCEPT ![f.user][f.room] = @ + 1]
         /\ UNCHANGED out

\* a fault thrown by the handler of f is caught at the dispatcher boundary
Fault(f) ==
    /\ out' = Append(out, Notice(f, "fault", f.cmd))
    /\ stack' = SetTop([f EXCEPT !.pc = "done"])

\* Finish that keeps the counter incremented after a caught fault
Finish_leak ==
    /\ stack # <<>>
    /\ Top.pc = "done"
    /\ depth' = IF \E i \in 1 .. Len(out) : out[i].kind = "fault"
                THEN depth
                ELSE [depth EXCEPT ![Top.user][Top.room] = @ - 1]
    /\ stack' = IF Len(stack) = 1 THEN <<>>
                ELSE [SubSeq(stack, 1, Len(stack) - 1)
                        EXCEPT ![Len(stack) - 1].pc = "done"]
    /\ out' = IF Len(stack) = 1 THEN <<>> ELSE out
    /\ line' = IF Len(stack) = 1 THEN "" ELSE line
    /\ UNCHANGED <<sinceBroadcast, rulesLink, chatRoomData, potd, rank, roomAuth, calcVars>>

\* handler completion: the context is destroyed and the counter
\* decremented; the caller, which returns the nested result, completes too.
\* The outbound messages are flushed when the outermost dispatch ends.
Finish ==
    /\ stack # <<>>
    /\ Top.pc = "done"
    /\ depth' = [depth EXCEPT ![Top.user][Top.room] = @ - 1]
    /\ stack' = IF Len(stack) = 1 THEN <<>>
                ELSE [SubSeq(stack, 1, Len(stack) - 1)
                        EXCEPT ![Len(stack) - 1].pc = "done"]
    /\ out' = IF Len(stack) = 1 THEN <<>> ELSE out
    /\ line' = IF Len(stack) = 1 THEN "" ELSE line
    /\ UNCHANGED <<sinceBroadcast, rulesLink, chatRoomData, potd, rank, roomAuth, calcVars>>

----------------------------------------------------------------------------
(* Handlers of commands.js *)

Running(h, pc) == stack # <<>> /\ Top.cmd = h /\ Top.pc = pc

\* this.targetUserOrSelf(target)
targetUserOrSelf(f) ==
    IF f.target = "" THEN f.user
    ELSE IF f.target \in Users THEN f.target ELSE NoUser

\* whois that does not return after reporting an unknown target
whois_noreturn ==
    /\ Running("whois", "start")
    /\ LET f == Top
           targetUser == targetUserOrSelf(f)
       IN  Emit(f,
              (IF targetUser = NoUser THEN <<sendReply(f, "notfound")>>
               ELSE <<sendReply(f, "user")>>)
              \o (IF can(f.user, "alts", targetUser, NoRoom)
                  THEN <<sendReply(f, "alts")>> ELSE <<>>)
              \o (IF targetUser # NoUser /\ rank[targetUser] # Unranked
                  THEN <<sendReply(f, "group")>> ELSE <<>>)
              \o (IF ~f.broadcasting
                     /\ (can(f.user, "ip", targetUser, NoRoom) \/ f.user = targetUser)
                  THEN <<sendReply(f, "ip")>> ELSE <<>>)
              \o <<sendReply(f, "rooms")>>,
              "done")
    /\ UNCHANGED <<depth, sinceBroadcast, rulesLink, chatRoomData, potd,
                   line, rank, roomAuth, calcVars>>

\* whois that shows the IP section to every actor
whois_ipforall ==
    /\ Running("whois", "start")
    /\ LET f == Top
           targetUser == targetUserOrSelf(f)
       IN  IF targetUser = NoUser
           THEN Emit(f, <<sendReply(f, "notfound")>>, "done")
           ELSE Emit(f,
                  <<sendReply(f, "user")>>
                  \o (IF can(f.user, "alts", targetUser, NoRoom)
                      THEN <<sendReply(f, "alts")>> ELSE <<>>)
                  \o (IF rank[targetUser] # Unranked
                      THEN <<sendReply(f, "group")>> ELSE <<>>)
                  \o (IF ~f.broadcasting
                      THEN <<sendReply(f, "ip")>> ELSE <<>>)
                  \o <<sendReply(f, "rooms")>>,
                  "done")
    /\ UNCHANGED <<depth, sinceBroadcast, rulesLink, chatRoomData, potd,
                   line, rank, roomAuth, calcVars>>

whois ==
    /\ Running("whois", "start")
    /\ LET f == Top
           targetUser == targetUserOrSelf(f)
       IN  IF targetUser = NoUser
           THEN Emit(f, <<sendReply(f, "notfound")>>, "done")
           ELSE Emit(f,
                  <<sendReply(f, "user")>>
                  \o (IF can(f.user, "alts", targetUser, NoRoom)
                      THEN <<sendReply(f, "alts")>> ELSE <<>>)
                  \o (IF rank[targetUser] # Unranked
                      THEN <<sendReply(f, "group")>> ELSE <<>>)
                  \o (IF ~f.broadcasting
                         /\ (can(f.user, "ip", targetUser, NoRoom) \/ f.user = targetUser)
                      THEN <<sendReply(f, "ip")>> ELSE <<>>)
                  \o <<sendReply(f, "rooms")>>,
                  "done")
    /\ UNCHANGED <<depth, sinceBroadcast, rulesLink, chatRoomData, potd,
                   line, rank, roomAuth, calcVars>>

\* number of catalog entries a search text matches
DexResults(target) == IF target = "ou" THEN 12 ELSE 3

\* tokens found in one of the search categories
DexKnown(target) == target \in {"lc", "ou"}

\* var output = 10
DexOutput == 10

\* dexsearch that clears this.broadcasting before it shows the help
dexsearch_privatehelp ==
    \/ /\ Running("dexsearch", "start")
       /\ canBroadcast(Top, "body", "done")
       /\ UNCHANGED <<depth, rulesLink, chatRoomData, potd, line, rank, roomAuth, calcVars>>
    \/ /\ Running("dexsearch", "body")
       /\ LET f == Top IN
          IF f.target = ""
          THEN /\ stack' = Append(SetTop([f EXCEPT !.pc = "wait", !.broadcasting = FALSE]),
                              NewContext("help", f.user, f.room, FALSE, "dexsearch"))
               /\ depth' = [depth EXCEPT ![f.user][f.room] = @ + 1]
               /\ UNCHANGED out
          ELSE IF ~DexKnown(f.target)
          THEN /\ Emit(f, <<sendReply(f, "unknowntoken")>>, "done")
               /\ UNCHANGED depth
          ELSE IF DexResults(f.target) <= DexOutput
          THEN /\ Emit(f, <<sendReply(f, "results")>>, "done")
               /\ UNCHANGED depth
          ELSE /\ Fault(f)
               /\ UNCHANGED depth
       /\ UNCHANGED <<sinceBroadcast, rulesLink, chatRoomData, potd, line,
                      rank, roomAuth, calcVars>>

dexsearch ==
    \/ /\ Running("dexsearch", "start")
       /\ canBroadcast(Top, "body", "done")
       /\ UNCHANGED <<depth, rulesLink, chatRoomData, potd, line, rank, roomAuth, calcVars>>
    \/ /\ Running("dexsearch", "body")
       /\ LET f == Top IN
          IF f.target = ""
          THEN parse(f, "help", "dexsearch")
          ELSE IF ~DexKnown(f.target)
          THEN /\ Emit(f, <<sendReply(f, "unknowntoken")>>, "done")
               /\ UNCHANGED depth
          ELSE IF DexResults(f.target) <= DexOutput
          THEN /\ Emit(f, <<sendReply(f, "results")>>, "done")
               /\ UNCHANGED depth
          ELSE /\ Fault(f)
               /\ UNCHANGED depth
       /\ UNCHANGED <<sinceBroadcast, rulesLink, chatRoomData, potd, line,
                      rank, roomAuth, calcVars>>

\* number of sendReply calls help makes for a target
HelpLines(target) == IF target = "dexsearch" THEN 6 ELSE 1

help ==
    /\ Running("help", "start")
    /\ LET f == Top IN
       Emit(f, [i \in 1 .. HelpLines(f.target) |->
                   sendReply(f, IF f.target = "dexsearch" THEN "help" ELSE "nohelp")],
            "done")
    /\ UNCHANGED <<depth, sinceBroadcast, rulesLink, chatRoomData, potd,
                   line, rank, roomAuth, calcVars>>

\* target.length
StrLen(target) ==
    CASE target = ""      -> 0
      [] target = "url80" -> 80
      [] target = "url81" -> 81
      [] target = " url " -> 5
      [] target = "url"   -> 3
      [] OTHER            -> 7

\* target.trim(): the text without its leading and trailing white space
trim(target) == IF target = " url " THEN "url" ELSE target

\* rules that persists the target as typed instead of the stored link
rules_persistraw ==
    \/ /\ Running("rules", "start")
       /\ LET f == Top IN
          IF f.target = ""
          THEN canBroadcast(f, "body", "done")
          ELSE /\ thisCan(f, "roommod", NoUser, f.room, "set", "done")
               /\ UNCHANGED sinceBroadcast
       /\ UNCHANGED <<depth, rulesLink, chatRoomData, potd, line, rank, roomAuth, calcVars>>
    \/ /\ Running("rules", "body")
       /\ Emit(Top, <<sendReply(Top, "rules")>>, "done")
       /\ UNCHANGED <<depth, sinceBroadcast, rulesLink, chatRoomData, potd,
                      line, rank, roomAuth, calcVars>>
    \/ /\ Running("rules", "set")
       /\ LET f == Top IN
          IF StrLen(f.target) > 80
          THEN /\ Emit(f, <<sendReply(f, "toolong")>>, "done")
               /\ UNCHANGED <<rulesLink, chatRoomData>>
          ELSE /\ rulesLink' = [rulesLink EXCEPT ![f.room] = trim(f.target)]
               /\ Emit(f, <<sendReply(f, "ruleslinkset")>>, "done")
               /\ chatRoomData' = IF chatRoomData[f.room] # NoData
                                  THEN [chatRoomData EXCEPT
                                          ![f.room] = f.target]
                                  ELSE chatRoomData
       /\ UNCHANGED <<depth, sinceBroadcast, potd, line, rank, roomAuth, calcVars>>

rules ==
    \/ /\ Running("rules", "start")
       /\ LET f == Top IN
          IF f.target = ""
          THEN canBroadcast(f, "body", "done")
          ELSE /\ thisCan(f, "roommod", NoUser, f.room, "set", "done")
               /\ UNCHANGED sinceBroadcast
       /\ UNCHANGED <<depth, rulesLink, chatRoomData, potd, line, rank, roomAuth, calcVars>>
    \/ /\ Running("rules", "body")
       /\ Emit(Top, <<sendReply(Top, "rules")>>, "done")
       /\ UNCHANGED <<depth, sinceBroadcast, rulesLink, chatRoomData, potd,
                      line, rank, roomAuth, calcVars>>
    \/ /\ Running("rules", "set")
       /\ LET f == Top IN
          IF StrLen(f.target) > 80
          THEN /\ Emit(f, <<sendReply(f, "toolong")>>, "done")
               /\ UNCHANGED <<rulesLink, chatRoomData>>
          ELSE /\ rulesLink' = [rulesLink EXCEPT ![f.room] = trim(f.target)]
               /\ Emit(f, <<sendReply(f, "ruleslinkset")>>, "done")
               /\ chatRoomData' = IF chatRoomData[f.room] # NoData
                                  THEN [chatRoomData EXCEPT
                                          ![f.room] = rulesLink'[f.room]]
                                  ELSE chatRoomData
       /\ UNCHANGED <<depth, sinceBroadcast, potd, line, rank, roomAuth, calcVars>>

\* potd that ignores the result of this.can
potd_unchecked ==
    \/ /\ Running("potd", "start")
       /\ thisCan(Top, "potd", NoUser, NoRoom, "body", "body")
       /\ UNCHANGED <<depth, sinceBroadcast, rulesLink, chatRoomData, potd,
                      line, rank, roomAuth, calcVars>>
    \/ /\ Running("potd", "body")
       /\ potd' = Top.target
       /\ Emit(Top, <<RoomAdd("lobby", "add", "potd"),
                      [level |-> Len(stack), kind |-> "modlog", what |-> "potd",
                       to |-> "modlog", logged |-> TRUE]>>, "done")
       /\ UNCHANGED <<depth, sinceBroadcast, rulesLink, chatRoomData,
                      line, rank, roomAuth, calcVars>>

potd_ ==
    \/ /\ Running("potd", "start")
       /\ thisCan(Top, "potd", NoUser, NoRoom, "body", "done")
       /\ UNCHANGED <<depth, sinceBroadcast, rulesLink, chatRoomData, potd,
                      line, rank, roomAuth, calcVars>>
    \/ /\ Running("potd", "body")
       /\ potd' = Top.target
       /\ Emit(Top, <<RoomAdd("lobby", "add", "potd"),
                      [level |-> Len(stack), kind |-> "modlog", what |-> "potd",
                       to |-> "modlog", logged |-> TRUE]>>, "done")
       /\ UNCHANGED <<depth, sinceBroadcast, rulesLink, chatRoomData,
                      line, rank, roomAuth, calcVars>>

\* lynn that goes on after canBroadcast has returned false
lynn_noreturn ==
    \/ /\ Running("lynn", "start")
       /\ canBroadcast(Top, "body", "body")
       /\ UNCHANGED <<depth, rulesLink, chatRoomData, potd, line, rank, roomAuth, calcVars>>
    \/ /\ Running("lynn", "body")
       /\ Emit(Top, <<sendReply(Top, "card")>>, "done")
       /\ UNCHANGED <<depth, sinceBroadcast, rulesLink, chatRoomData, potd,
                      line, rank, roomAuth, calcVars>>

\* lynn that answers on the connection instead of through sendReplyBox
lynn_sendto ==
    \/ /\ Running("lynn", "start")
       /\ canBroadcast(Top, "body", "done")
       /\ UNCHANGED <<depth, rulesLink, chatRoomData, potd, line, rank, roomAuth, calcVars>>
    \/ /\ Running("lynn", "body")
       /\ Emit(Top, <<Notice(Top, "reply", "card")>>, "done")
       /\ UNCHANGED <<depth, sinceBroadcast, rulesLink, chatRoomData, potd,
                      line, rank, roomAuth, calcVars>>

lynn ==
    \/ /\ Running("lynn", "start")
       /\ canBroadcast(Top, "body", "done")
       /\ UNCHANGED <<depth, rulesLink, chatRoomData, potd, line, rank, roomAuth, calcVars>>
    \/ /\ Running("lynn", "body")
       /\ Emit(Top, <<sendReply(Top, "card")>>, "done")
       /\ UNCHANGED <<depth, sinceBroadcast, rulesLink, chatRoomData, potd,
                      line, rank, roomAuth, calcVars>>

\* a handler whose body is: return this.parse('/recurse');
recurse ==
    /\ Running("recurse", "start")
    /\ parse(Top, "recurse", "")
    /\ UNCHANGED <<sinceBroadcast, rulesLink, chatRoomData, potd, line,
                   rank, roomAuth, calcVars>>

----------------------------------------------------------------------------
(* dexsearch: the filter engine (commands.js lines 268-452) *)

\* one comma-separated piece of the target text, as the user typed it: an
\* optional leading '!', the text in lower case, and whether it was typed
\* with upper-case letters
Tok(word) == [bang |-> FALSE, upper |-> FALSE, word |-> word]
Not(word) == [bang |-> TRUE, upper |-> FALSE, word |-> word]
Upper(word) == [bang |-> FALSE, upper |-> TRUE, word |-> word]
NoToken == Tok("")

\* targets[i].trim().toLowerCase()
toLowerCase(tok) == [tok EXCEPT !.upper = FALSE]

\* target.slice(1) of a text that starts with '!'
slice1(tok) == [tok EXCEPT !.bang = FALSE]

\* Tools.data.Abilities: id -> name
Abilities == [levitate |-> "Levitate", static |-> "Static"]

\* Tools.data.Movedex: id -> name
Movedex == [ember |-> "Ember", surf |-> "Surf", protect |-> "Protect",
            thunderbolt |-> "Thunderbolt", nastyplot |-> "Nasty Plot",
            sketch |-> "Sketch", struggle |-> "Struggle"]

\* Tools.data.TypeChart
TypeChart == {"Fire", "Flying", "Water", "Ghost", "Poison", "Electric",
              "Dark", "Normal", "Dragon", "Ice", "Bug"}

\* var allTiers
allTiers == {"uber", "ou", "lc", "cap", "bl"}

\* var allColours
allColours == {"green", "red", "blue", "white", "brown", "yellow", "purple",
               "pink", "gray", "black"}

\* the tiers the help text of dexsearch lists, in lower case
HelpTiers == {"uber", "ou", "bl", "uu", "bl2", "ru", "nu", "nfe", "lc", "cap"}

\* parseInt(target), NaN being 0 here
parseInt(word) ==
    CASE word = "1" -> 1
      [] word = "2" -> 2
      [] word = "6" -> 6
      [] word = "7" -> 7
      [] OTHER      -> 0

\* target.indexOf(' type') > -1
HasTypeSuffix(word) == word \in {"fire type", "flying type", "fier type"}

\* target.charAt(0).toUpperCase() + target.slice(1, target.indexOf(' type'))
TypeWord(word) ==
    CASE word = "fire type"   -> "Fire"
      [] word = "flying type" -> "Flying"
      [] word = "fier type"   -> "Fier"
      [] OTHER                -> word

\* a search category: the keys of searches[category] in insertion order, each
\* with its value (true: required, false: excluded)
Put(cat, name, val) ==
    IF \E k \in 1 .. Len(cat) : cat[k].name = name
    THEN [k \in 1 .. Len(cat) |->
             IF cat[k].name = name THEN [name |-> name, val |-> val] ELSE cat[k]]
    ELSE Append(cat, [name |-> name, val |-> val])

\* Object.count(searches[category], val)
Count(cat, val) == Cardinality({k \in 1 .. Len(cat) : cat[k].val = val})

\* key in searches[category]
HasKey(cat, name) == \E k \in 1 .. Len(cat) : cat[k].name = name

\* searches[category][name] is true / is false
IsTrue(cat, name) == \E k \in 1 .. Len(cat) : cat[k].name = name /\ cat[k].val
IsFalse(cat, name) == \E k \in 1 .. Len(cat) : cat[k].name = name /\ ~cat[k].val

\* var searches = {}
NoSearches == [ability |-> <<>>, tier |-> <<>>, color |-> <<>>, gen |-> <<>>,
               types |-> <<>>, moves |-> <<>>]

\* Object.size(searches)
SearchesSize(s) ==
    Cardinality({c \in DOMAIN s : s[c] # <<>>})

\* the replies of dexsearch
NoReply == [what |-> "none", token |-> NoToken, names |-> <<>>, more |-> 0]
Message(what) == [NoReply EXCEPT !.what = what]
CouldNotBeFound(shown) == [NoReply EXCEPT !.what = "notfound", !.token = shown]

\* the state of the parsing loop
ParseStart ==
    [searches |-> NoSearches, showAll |-> FALSE, megaSearch |-> "null",
     reply |-> NoReply]

\* the parsing loop with an ability limit that also counts excluded abilities
ParseToken_nonegation(st, tok, broadcasting) ==
    LET isNotSearch == tok.bang
        lowered == toLowerCase(tok)
        target == (IF isNotSearch THEN slice1(lowered) ELSE lowered).word
        s == st.searches
    IN
    IF target \in DOMAIN Abilities
    THEN IF Count(s.ability, TRUE) = 1
         THEN [st EXCEPT !.reply = Message("oneability")]
         ELSE [st EXCEPT !.searches.ability = Put(@, Abilities[target], ~isNotSearch)]
    ELSE IF target \in allTiers
    THEN [st EXCEPT !.searches.tier = Put(@, target, ~isNotSearch)]
    ELSE IF target \in allColours
    THEN [st EXCEPT !.searches.color = Put(@, target, ~isNotSearch)]
    ELSE IF 0 < parseInt(target) /\ parseInt(target) < 7
    THEN [st EXCEPT !.searches.gen = Put(@, target, ~isNotSearch)]
    ELSE IF target = "all"
    THEN IF broadcasting
         THEN [st EXCEPT !.reply = Message("allbroadcast")]
         ELSE [st EXCEPT !.showAll = TRUE]
    ELSE IF target \in {"megas", "mega"}
    THEN [st EXCEPT !.megaSearch = IF isNotSearch THEN "false" ELSE "true"]
    ELSE IF HasTypeSuffix(target) /\ TypeWord(target) \in TypeChart
    THEN IF Count(s.types, TRUE) = 2 /\ ~isNotSearch
         THEN [st EXCEPT !.reply = Message("twotypes")]
         ELSE [st EXCEPT !.searches.types = Put(@, TypeWord(target), ~isNotSearch)]
    ELSE LET moveTarget == IF HasTypeSuffix(target) THEN TypeWord(target) ELSE target IN
         IF moveTarget \in DOMAIN Movedex
         THEN IF Count(s.moves, TRUE) = 4 /\ ~isNotSearch
              THEN [st EXCEPT !.reply = Message("fourmoves")]
              ELSE [st EXCEPT !.searches.moves = Put(@, Movedex[moveTarget], ~isNotSearch)]
         ELSE [st EXCEPT !.reply = CouldNotBeFound(Tok(moveTarget))]

\* one pass of the loop `for (var i in targets)` (lines 280-347) over the
\* piece tok; broadcasting is this.broadcasting
ParseToken(st, tok, broadcasting) ==
    LET isNotSearch == tok.bang
        lowered == toLowerCase(tok)
        target == (IF isNotSearch THEN slice1(lowered) ELSE lowered).word
        s == st.searches
    IN
    IF target \in DOMAIN Abilities
    THEN IF Count(s.ability, TRUE) = 1 /\ ~isNotSearch
         THEN [st EXCEPT !.reply = Message("oneability")]
         ELSE [st EXCEPT !.searches.ability = Put(@, Abilities[target], ~isNotSearch)]
    ELSE IF target \in allTiers
    THEN [st EXCEPT !.searches.tier = Put(@, target, ~isNotSearch)]
    ELSE IF target \in allColours
    THEN [st EXCEPT !.searches.color = Put(@, target, ~isNotSearch)]
    ELSE IF 0 < parseInt(target) /\ parseInt(target) < 7
    THEN [st EXCEPT !.searches.gen = Put(@, target, ~isNotSearch)]
    ELSE IF target = "all"
    THEN IF broadcasting
         THEN [st EXCEPT !.reply = Message("allbroadcast")]
         ELSE [st EXCEPT !.showAll = TRUE]
    ELSE IF target \in {"megas", "mega"}
    THEN [st EXCEPT !.megaSearch = IF isNotSearch THEN "false" ELSE "true"]
    ELSE IF HasTypeSuffix(target) /\ TypeWord(target) \in TypeChart
    THEN IF Count(s.types, TRUE) = 2 /\ ~isNotSearch
         THEN [st EXCEPT !.reply = Message("twotypes")]
         ELSE [st EXCEPT !.searches.types = Put(@, TypeWord(target), ~isNotSearch)]
    ELSE LET moveTarget == IF HasTypeSuffix(target) THEN TypeWord(target) ELSE target IN
         IF moveTarget \in DOMAIN Movedex
         THEN IF Count(s.moves, TRUE) = 4 /\ ~isNotSearch
              THEN [st EXCEPT !.reply = Message("fourmoves")]
              ELSE [st EXCEPT !.searches.moves = Put(@, Movedex[moveTarget], ~isNotSearch)]
         ELSE [st EXCEPT !.reply = CouldNotBeFound(Tok(moveTarget))]

\* the loop over targets from piece i on; a reply ends it (return)
RECURSIVE ParseFrom(_, _, _, _)
ParseFrom(st, targets, i, broadcasting) ==
    IF i > Len(targets) \/ st.reply # NoReply
    THEN st
    ELSE ParseFrom(ParseToken(st, targets[i], broadcasting), targets, i + 1, broadcasting)

\* line 349: 'all' alone is not a search
OnlyAll(st) ==
    st.showAll /\ SearchesSize(st.searches) = 0 /\ st.megaSearch = "null"

\* an entry of Tools.data.Pokedex as Tools.getTemplate returns it
Mon(id, species, types, tier, abilities, color, gen, evos, prevo, learnset) ==
    [id |-> id, species |-> species, types |-> types, tier |-> tier,
     abilities |-> abilities, color |-> color, gen |-> gen, evos |-> evos,
     prevo |-> prevo, isMega |-> FALSE, baseSpecies |-> id,
     hasLearnset |-> TRUE, learnset |-> learnset]

\* a mega forme: no learnset of its own, generation 6
Mega(id, species, types, tier, abilities, color, prevo, baseSpecies) ==
    [id |-> id, species |-> species, types |-> types, tier |-> tier,
     abilities |-> abilities, color |-> color, gen |-> 6, evos |-> <<>>,
     prevo |-> prevo, isMega |-> TRUE, baseSpecies |-> baseSpecies,
     hasLearnset |-> FALSE, learnset |-> {}]

\* Tools.data.Pokedex, in key order: a sample of the catalog.  Prevomon and
\* Evomon stand for an entry whose evolution the tier data marks Illegal.
Pokedex == <<
    Mon("charmander", "Charmander", <<"Fire">>, "LC", {"Blaze"}, "Red", 1,
        <<"charmeleon">>, "", {"ember", "protect"}),
    Mon("charmeleon", "Charmeleon", <<"Fire">>, "NFE", {"Blaze"}, "Red", 1,
        <<"charizard">>, "charmander", {"ember", "protect"}),
    Mon("charizard", "Charizard", <<"Fire", "Flying">>, "OU", {"Blaze"}, "Red", 1,
        <<>>, "charmeleon", {"ember", "protect"}),
    Mega("charizardmegax", "Charizard-Mega-X", <<"Fire", "Dragon">>, "OU",
         {"Tough Claws"}, "Black", "charmeleon", "charizard"),
    Mon("squirtle", "Squirtle", <<"Water">>, "LC", {"Torrent"}, "Blue", 1,
        <<"wartortle">>, "", {"surf", "protect"}),
    Mon("wartortle", "Wartortle", <<"Water">>, "NFE", {"Torrent"}, "Blue", 1,
        <<"blastoise">>, "squirtle", {"surf", "protect"}),
    Mon("blastoise", "Blastoise", <<"Water">>, "UU", {"Torrent"}, "Blue", 1,
        <<>>, "wartortle", {"surf", "protect"}),
    Mon("pikachu", "Pikachu", <<"Electric">>, "NFE", {"Static"}, "Yellow", 1,
        <<"raichu">>, "pichu", {"thunderbolt", "surf", "protect"}),
    Mon("raichu", "Raichu", <<"Electric">>, "UU", {"Static"}, "Yellow", 1,
        <<>>, "pikachu", {"thunderbolt", "protect"}),
    Mon("gastly", "Gastly", <<"Ghost", "Poison">>, "LC", {"Levitate"}, "Purple", 1,
        <<"haunter">>, "", {"thunderbolt", "protect"}),
    Mon("haunter", "Haunter", <<"Ghost", "Poison">>, "NFE", {"Levitate"}, "Purple", 1,
        <<"gengar">>, "gastly", {"thunderbolt", "protect"}),
    Mon("gengar", "Gengar", <<"Ghost", "Poison">>, "OU", {"Levitate"}, "Purple", 1,
        <<>>, "haunter", {"thunderbolt", "protect"}),
    Mon("scyther", "Scyther", <<"Bug", "Flying">>, "NU", {"Swarm"}, "Green", 1,
        <<"scizor">>, "", {"protect"}),
    Mon("moltres", "Moltres", <<"Fire", "Flying">>, "UU", {"Pressure"}, "Yellow", 1,
        <<>>, "", {"ember", "protect"}),
    Mon("pichu", "Pichu", <<"Electric">>, "LC", {"Static"}, "Yellow", 2,
        <<"pikachu">>, "", {"thunderbolt", "protect", "nastyplot"}),
    Mon("murkrow", "Murkrow", <<"Dark", "Flying">>, "NU", {"Insomnia"}, "Black", 2,
        <<"honchkrow">>, "", {"protect"}),
    Mon("scizor", "Scizor", <<"Bug", "Steel">>, "OU", {"Swarm"}, "Red", 2,
        <<>>, "scyther", {"protect"}),
    Mon("smeargle", "Smeargle", <<"Normal">>, "NU", {"Own Tempo"}, "White", 2,
        <<>>, "", {"sketch"}),
    Mon("honchkrow", "Honchkrow", <<"Dark", "Flying">>, "UU", {"Insomnia"}, "Black", 4,
        <<>>, "murkrow", {}),
    Mon("prevomon", "Prevomon", <<"Normal">>, "LC", {"Run Away"}, "Brown", 6,
        <<"evomon">>, "", {"ember"}),
    Mon("evomon", "Evomon", <<"Normal">>, "Illegal", {"Run Away"}, "Brown", 6,
        <<>>, "prevomon", {}),
    Mon("syclar", "Syclar", <<"Ice", "Bug">>, "CAP", {"Compound Eyes"}, "Blue", 4,
        <<"syclant">>, "", {"protect"}),
    Mon("syclant", "Syclant", <<"Ice", "Bug">>, "CAP", {"Compound Eyes"}, "Blue", 4,
        <<>>, "syclar", {"protect"})
    >>

\* Tools.getTemplate(id)
getTemplate(id) ==
    Pokedex[CHOOSE k \in 1 .. Len(Pokedex) : Pokedex[k].id = id]

\* the display names in the order Array.prototype.sort gives strings
SortedSpecies == <<
    "Blastoise", "Charizard", "Charizard-Mega-X", "Charmander", "Charmeleon",
    "Evomon", "Gastly", "Gengar", "Haunter", "Honchkrow", "Moltres", "Murkrow",
    "Pichu", "Pikachu", "Prevomon", "Raichu", "Scizor", "Scyther", "Smeargle",
    "Squirtle", "Syclant", "Syclar", "Wartortle">>

\* Tools.data.Formats['lc'].banlist
LcBanlist == {"Scyther"}

\* String(value).toLowerCase() of a tier or a colour
LowerCase(value) ==
    CASE value = "LC" -> "lc"     [] value = "NFE" -> "nfe"
      [] value = "OU" -> "ou"     [] value = "UU" -> "uu"
      [] value = "NU" -> "nu"     [] value = "CAP" -> "cap"
      [] value = "Illegal" -> "illegal"
      [] value = "Red" -> "red"   [] value = "Blue" -> "blue"
      [] value = "Black" -> "black" [] value = "Yellow" -> "yellow"
      [] value = "Purple" -> "purple" [] value = "Green" -> "green"
      [] value = "White" -> "white" [] value = "Brown" -> "brown"

\* String(gen)
GenString(gen) ==
    CASE gen = 1 -> "1" [] gen = 2 -> "2" [] gen = 3 -> "3"
      [] gen = 4 -> "4" [] gen = 5 -> "5" [] gen = 6 -> "6"

\* dex: the keys of the working set in key order, each with live = FALSE when
\* its value is the sentinel false and TRUE when it is a template
DexStatus(dex, id) ==
    IF \E k \in 1 .. Len(dex) : dex[k].id = id /\ dex[k].live THEN "template"
    ELSE IF \E k \in 1 .. Len(dex) : dex[k].id = id THEN "false"
    ELSE "undefined"

\* delete dex[id]
DexDelete(dex, id) == SelectSeq(dex, LAMBDA e : e.id # id)

\* dex[id] = value
DexSet(dex, id, live) ==
    IF \E k \in 1 .. Len(dex) : dex[k].id = id
    THEN [k \in 1 .. Len(dex) |->
             IF dex[k].id = id THEN [id |-> id, live |-> live] ELSE dex[k]]
    ELSE Append(dex, [id |-> id, live |-> live])

\* the condition of lines 353-357
Legal(template, searches, megaSearch) ==
    /\ template.tier # "Illegal"
    /\ (template.tier # "CAP" \/ IsTrue(searches.tier, "cap"))
    /\ \/ megaSearch = "null"
       \/ megaSearch = "true" /\ template.isMega
       \/ megaSearch = "false" /\ ~template.isMega

\* lines 351-358: the catalog restricted to the legal entries
LegalDex(searches, megaSearch) ==
    LET all == [k \in 1 .. Len(Pokedex) |-> [id |-> Pokedex[k].id, live |-> TRUE]]
    IN  SelectSeq(all, LAMBDA e : Legal(getTemplate(e.id), searches, megaSearch))

\* dex[mon].types[1] of an entry with one type is undefined
\* types[1] taken to be the first type again
SecondType_first(template) == template.types[1]

SecondType(template) ==
    IF Len(template.types) > 1 THEN template.types[2] ELSE "undefined"

\* types pass whose two-type test keeps an entry that has either type
typesPass_either(dex, cat) ==
    SelectSeq(dex, LAMBDA e :
        LET t == getTemplate(e.id) IN
        IF Count(cat, TRUE) = 2
        THEN ~(~IsTrue(cat, t.types[1]) /\ ~IsTrue(cat, SecondType(t)))
        ELSE ~(\/ IsFalse(cat, t.types[1])
               \/ IsFalse(cat, SecondType(t))
               \/ (/\ Count(cat, TRUE) > 0
                   /\ ~IsTrue(cat, t.types[1])
                   /\ ~IsTrue(cat, SecondType(t)))))

\* case 'types' (lines 363-372)
typesPass(dex, cat) ==
    SelectSeq(dex, LAMBDA e :
        LET t == getTemplate(e.id) IN
        IF Count(cat, TRUE) = 2
        THEN ~(~IsTrue(cat, t.types[1]) \/ ~IsTrue(cat, SecondType(t)))
        ELSE ~(\/ IsFalse(cat, t.types[1])
               \/ IsFalse(cat, SecondType(t))
               \/ (/\ Count(cat, TRUE) > 0
                   /\ ~IsTrue(cat, t.types[1])
                   /\ ~IsTrue(cat, SecondType(t)))))

\* lines 391-394: the test shared by the tier, gen and color passes
KeepByValue(cat, value) ==
    ~(\/ IsFalse(cat, value)
      \/ (Count(cat, TRUE) > 0 /\ ~IsTrue(cat, value)))

\* var isLC (line 379)
isLC(template) ==
    /\ Len(template.evos) > 0
    /\ template.prevo = ""
    /\ template.species \notin LcBanlist

\* case 'tier' (lines 374-389)
tierPass(dex, cat) ==
    SelectSeq(dex, LAMBDA e :
        LET t == getTemplate(e.id) IN
        /\ HasKey(cat, "lc")
           => ~(\/ (IsTrue(cat, "lc") /\ ~isLC(t))
                \/ (~IsTrue(cat, "lc") /\ isLC(t)))
        /\ KeepByValue(cat, LowerCase(t.tier)))

\* case 'gen' (lines 391-397)
genPass(dex, cat) ==
    SelectSeq(dex, LAMBDA e : KeepByValue(cat, GenString(getTemplate(e.id).gen)))

\* case 'color' (lines 391-397)
colorPass(dex, cat) ==
    SelectSeq(dex, LAMBDA e : KeepByValue(cat, LowerCase(getTemplate(e.id).color)))

\* case 'ability' (lines 399-410)
abilityPass(dex, cat) ==
    SelectSeq(dex, LAMBDA e :
        \A k \in 1 .. Len(cat) :
            (cat[k].name \in getTemplate(e.id).abilities) = cat[k].val)

\* Tools.getMove(name).id
MoveId(name) == CHOOSE id \in DOMAIN Movedex : Movedex[id] = name

\* the template whose learnset the moves pass reads (lines 414-416)
LearnsetOf(id) ==
    IF getTemplate(id).hasLearnset THEN getTemplate(id)
    ELSE getTemplate(getTemplate(id).baseSpecies)

\* canLearn in which Sketch grants every move
canLearn_sketchall(template, move) ==
    \/ "sketch" \in template.learnset
    \/ MoveId(move) \in template.learnset

\* var canLearn (line 420)
canLearn(template, move) ==
    \/ ("sketch" \in template.learnset
        /\ MoveId(move) \notin {"chatter", "struggle", "magikarpsrevenge"})
    \/ MoveId(move) \in template.learnset

\* lines 417-423 for one entry: what dex[mon] is after the moves from key k
\* on, and whether the key was deleted and then set again, which puts it
\* last in key order
RECURSIVE MoveScan(_, _, _, _)
MoveScan(r, template, cat, k) ==
    IF k > Len(cat) THEN r
    ELSE IF ~canLearn(template, cat[k].name) /\ cat[k].val
    THEN MoveScan([r EXCEPT !.status = "undefined"], template, cat, k + 1)
    ELSE IF ~cat[k].val /\ canLearn(template, cat[k].name)
    THEN MoveScan([status |-> "false",
                   moved |-> r.moved \/ r.status = "undefined"],
                  template, cat, k + 1)
    ELSE MoveScan(r, template, cat, k + 1)

\* the first loop of case 'moves' (lines 413-424) over the keys from k on
RECURSIVE MovesLearnLoop(_, _, _, _)
MovesLearnLoop(dex, keys, k, cat) ==
    IF k > Len(keys) THEN dex
    ELSE LET mon == keys[k]
             template == LearnsetOf(mon)
             r == MoveScan([status |-> "template", moved |-> FALSE], template, cat, 1)
             after ==
                 IF ~template.hasLearnset THEN dex
                 ELSE IF r.status = "undefined" THEN DexDelete(dex, mon)
                 ELSE IF r.status = "false"
                 THEN IF r.moved
                      THEN Append(DexDelete(dex, mon), [id |-> mon, live |-> FALSE])
                      ELSE DexSet(dex, mon, FALSE)
                 ELSE dex
         IN  MovesLearnLoop(after, keys, k + 1, cat)

\* line 427 for the evolutions of one entry from the j-th on: w.dex is the
\* working set, w.order the keys the enclosing for-in visits; a key added
\* during the loop is visited only if the engine's for-in visits added keys
RECURSIVE AddEvos(_, _, _, _)
AddEvos(w, evos, j, visitAdded) ==
    IF j > Len(evos) THEN w
    ELSE IF DexStatus(w.dex, evos[j]) = "false"
    THEN AddEvos(w, evos, j + 1, visitAdded)
    ELSE AddEvos([dex |-> DexSet(w.dex, evos[j], TRUE),
                  order |-> IF DexStatus(w.dex, evos[j]) = "undefined" /\ visitAdded
                            THEN Append(w.order, evos[j]) ELSE w.order],
                 evos, j + 1, visitAdded)

\* the second loop of case 'moves' (lines 425-430) from the k-th visit on
RECURSIVE MovesEvoLoop(_, _, _)
MovesEvoLoop(w, k, visitAdded) ==
    IF k > Len(w.order) THEN w.dex
    ELSE LET mon == w.order[k]
             status == DexStatus(w.dex, mon)
             added == IF status = "template"
                      THEN AddEvos(w, getTemplate(mon).evos, 1, visitAdded)
                      ELSE w
             swept == IF status = "false"
                      THEN [added EXCEPT !.dex = DexDelete(added.dex, mon)]
                      ELSE added
         IN  MovesEvoLoop(swept, k + 1, visitAdded)

Ids(dex) == [k \in 1 .. Len(dex) |-> dex[k].id]

\* case 'moves' (lines 412-431)
movesPass(dex, cat, visitAdded) ==
    LET learned == MovesLearnLoop(dex, Ids(dex), 1, cat)
    IN  MovesEvoLoop([dex |-> learned, order |-> Ids(learned)], 1, visitAdded)

\* the passes with the moves pass last
PassOrder_moveslast == <<"types", "ability", "tier", "gen", "color", "moves">>

\* the order of the passes (line 360)
PassOrder == <<"moves", "types", "ability", "tier", "gen", "color">>

\* one turn of the loop of line 360
ApplyPass(search, dex, searches, visitAdded) ==
    IF searches[search] = <<>> THEN dex
    ELSE CASE search = "moves"   -> movesPass(dex, searches.moves, visitAdded)
           [] search = "types"   -> typesPass(dex, searches.types)
           [] search = "ability" -> abilityPass(dex, searches.ability)
           [] search = "tier"    -> tierPass(dex, searches.tier)
           [] search = "gen"     -> genPass(dex, searches.gen)
           [] search = "color"   -> colorPass(dex, searches.color)

\* the passes from the k-th on
RECURSIVE PassesFrom(_, _, _, _)
PassesFrom(dex, searches, k, visitAdded) ==
    IF k > Len(PassOrder) THEN dex
    ELSE PassesFrom(ApplyPass(PassOrder[k], dex, searches, visitAdded),
                    searches, k + 1, visitAdded)

\* results.sort()
Sort(names) ==
    SelectSeq(SortedSpecies, LAMBDA n : \E k \in 1 .. Len(names) : names[k] = n)

\* the reply without the sort: the names in the key order of dex
ResultReply_unsorted(dex, showAll) ==
    LET results == [k \in 1 .. Len(dex) |-> getTemplate(dex[k].id).species] IN
    IF Len(results) > 0
    THEN IF showAll \/ Len(results) <= DexOutput
         THEN [NoReply EXCEPT !.what = "results", !.names = results]
         ELSE Message("ReferenceError")
    ELSE Message("nonefound")

\* lines 438-451: the reply for the working set.  In the branch for more
\* than `output` results line 446 calls string(), which is not defined: the
\* handler throws a ReferenceError instead of replying.
ResultReply(dex, showAll) ==
    LET results == [k \in 1 .. Len(dex) |-> getTemplate(dex[k].id).species] IN
    IF Len(results) > 0
    THEN IF showAll \/ Len(results) <= DexOutput
         THEN [NoReply EXCEPT !.what = "results", !.names = Sort(results)]
         ELSE Message("ReferenceError")
    ELSE Message("nonefound")

\* the outcome of dexsearch for a target text that is not empty
DexSearch(targets, broadcasting, visitAdded) ==
    LET st == ParseFrom(ParseStart, targets, 1, broadcasting) IN
    IF st.reply # NoReply THEN st.reply
    ELSE IF OnlyAll(st) THEN Message("onlyall")
    ELSE ResultReply(PassesFrom(LegalDex(st.searches, st.megaSearch),
                                st.searches, 1, visitAdded),
                     st.showAll)

\* dexsearch, one step per turn of its loops, for a target text that is not
\* empty and an invocation that has passed canBroadcast

\* the parsing step taken as if the invocation were never Broadcasting
DexParseToken_private ==
    /\ qPc = "parse"
    /\ qIndex <= Len(qTargets)
    /\ LET st == ParseToken(qState, qTargets[qIndex], FALSE) IN
       /\ qState' = st
       /\ qIndex' = qIndex + 1
       /\ qReply' = st.reply
       /\ qPc' = IF st.reply # NoReply THEN "done" ELSE "parse"
    /\ UNCHANGED <<qTargets, qBroadcasting, qForIn, qDex>>
    /\ UNCHANGED <<coreVars, diceVars>>

\* one turn of the parsing loop (lines 280-347); a reply returns
DexParseToken ==
    /\ qPc = "parse"
    /\ qIndex <= Len(qTargets)
    /\ LET st == ParseToken(qState, qTargets[qIndex], qBroadcasting) IN
       /\ qState' = st
       /\ qIndex' = qIndex + 1
       /\ qReply' = st.reply
       /\ qPc' = IF st.reply # NoReply THEN "done" ELSE "parse"
    /\ UNCHANGED <<qTargets, qBroadcasting, qForIn, qDex>>
    /\ UNCHANGED <<coreVars, diceVars>>

\* lines 349-358: 'all' alone is refused; otherwise the working set starts
\* as the legal part of the catalog
DexRestrict ==
    /\ qPc = "parse"
    /\ qIndex > Len(qTargets)
    /\ IF OnlyAll(qState)
       THEN /\ qReply' = Message("onlyall")
            /\ qPc' = "done"
            /\ UNCHANGED <<qDex, qIndex>>
       ELSE /\ qDex' = LegalDex(qState.searches, qState.megaSearch)
            /\ qPc' = "filter"
            /\ qIndex' = 1
            /\ UNCHANGED qReply
    /\ UNCHANGED <<qTargets, qBroadcasting, qForIn, qState>>
    /\ UNCHANGED <<coreVars, diceVars>>

\* one turn of the loop over the categories (lines 360-437)
DexPass ==
    /\ qPc = "filter"
    /\ qIndex <= Len(PassOrder)
    /\ qDex' = ApplyPass(PassOrder[qIndex], qDex, qState.searches, qForIn)
    /\ qIndex' = qIndex + 1
    /\ UNCHANGED <<qTargets, qBroadcasting, qForIn, qState, qPc, qReply>>
    /\ UNCHANGED <<coreVars, diceVars>>

\* lines 438-451
DexResult ==
    /\ qPc = "filter"
    /\ qIndex > Len(PassOrder)
    /\ qReply' = ResultReply(qDex, qState.showAll)
    /\ qPc' = "done"
    /\ UNCHANGED <<qTargets, qBroadcasting, qForIn, qState, qDex, qIndex>>
    /\ UNCHANGED <<coreVars, diceVars>>

----------------------------------------------------------------------------
(* dice (commands.js lines 1147-1170) *)

\* the value parseInt gives for a text that starts with no digits
NaN == -1000000

isNaN(x) == x = NaN

\* Math.random() takes the values k / RandomSteps, 0 <= k < RandomSteps
RandomSteps == 6

\* Math.floor(n * Math.random()) + 1 for Math.random() = k / RandomSteps
RandomUpTo(n, k) == ((n * k) \div RandomSteps) + 1

\* the target texts: empty; a number written with at most 21 characters; a
\* text that is no number and has no 'd'; a number of more than 21
\* characters; and '<num>d<faces>', either part possibly not a number
DiceNumbers == {-5, 0, 1, 2, 6}
DiceCounts == {NaN, 0, 1, 2, 3, 21}
DiceFaces == {NaN, 0, 1, 2, 6, 1001}

DiceTargets ==
    {[kind |-> "empty", num |-> NaN, faces |-> NaN],
     [kind |-> "text", num |-> NaN, faces |-> NaN],
     [kind |-> "long", num |-> NaN, faces |-> NaN]}
    \cup {[kind |-> "number", num |-> n, faces |-> NaN] : n \in DiceNumbers}
    \cup {[kind |-> "dice", num |-> n, faces |-> f] : n \in DiceCounts, f \in DiceFaces}

NoRoll == [what |-> "none", num |-> 0, faces |-> 0, rolls |-> <<>>, total |-> 0,
           maxRoll |-> 0, rand |-> 0]

\* var num, after `if (isNaN(num)) num = 1`
DiceNum(target) == IF isNaN(target.num) THEN 1 ELSE target.num

\* lines 1149-1158 and 1166-1169: everything but the loop that rolls
DiceStart ==
    /\ dicePc = "start"
    /\ IF diceTarget.kind = "dice"
       THEN /\ UNCHANGED <<rolls, total>>
            /\ IF isNaN(diceTarget.faces)
               THEN diceReply' = [NoRoll EXCEPT !.what = "facesnotinteger"] /\ dicePc' = "done"
               ELSE IF diceTarget.faces < 1 \/ diceTarget.faces > 1000
               THEN diceReply' = [NoRoll EXCEPT !.what = "facesrange"] /\ dicePc' = "done"
               ELSE IF DiceNum(diceTarget) < 1 \/ DiceNum(diceTarget) > 20
               THEN diceReply' = [NoRoll EXCEPT !.what = "dicerange"] /\ dicePc' = "done"
               ELSE dicePc' = "roll" /\ UNCHANGED diceReply
       ELSE IF diceTarget.kind \in {"text", "long"}
       THEN /\ diceReply' = [NoRoll EXCEPT !.what = "notnumber"]
            /\ dicePc' = "done"
            /\ UNCHANGED <<rolls, total>>
       ELSE \E k \in 0 .. RandomSteps - 1 :
               LET maxRoll == IF diceTarget.kind = "empty" THEN 6 ELSE diceTarget.num IN
               /\ diceReply' = [NoRoll EXCEPT !.what = "number", !.maxRoll = maxRoll,
                                              !.rand = RandomUpTo(maxRoll, k)]
               /\ dicePc' = "done"
               /\ UNCHANGED <<rolls, total>>
    /\ UNCHANGED diceTarget
    /\ UNCHANGED <<coreVars, dexVars>>

\* one turn of the loop of lines 1160-1163
DiceRoll ==
    /\ dicePc = "roll"
    /\ Len(rolls) < DiceNum(diceTarget)
    /\ \E k \in 0 .. RandomSteps - 1 :
          /\ rolls' = Append(rolls, RandomUpTo(diceTarget.faces, k))
          /\ total' = total + RandomUpTo(diceTarget.faces, k)
    /\ UNCHANGED <<diceTarget, dicePc, diceReply>>
    /\ UNCHANGED <<coreVars, dexVars>>

\* line 1164
DiceReply ==
    /\ dicePc = "roll"
    /\ Len(rolls) = DiceNum(diceTarget)
    /\ diceReply' = [NoRoll EXCEPT !.what = "rolls", !.num = DiceNum(diceTarget),
                                   !.faces = diceTarget.faces, !.rolls = rolls,
                                   !.total = total]
    /\ dicePc' = "done"
    /\ UNCHANGED <<diceTarget, rolls, total>>
    /\ UNCHANGED <<coreVars, dexVars>>

----------------------------------------------------------------------------
(* The state machine *)

\* time passes between two lines of a connection
Tick ==
    /\ stack = <<>>
    /\ \E r \in Rooms, u \in Users : sinceBroadcast[r][u] < BroadcastCooldown
    /\ sinceBroadcast' = [r \in Rooms |-> [u \in Users |->
            IF sinceBroadcast[r][u] < BroadcastCooldown
            THEN sinceBroadcast[r][u] + 1 ELSE sinceBroadcast[r][u]]]
    /\ UNCHANGED <<stack, depth, out, rulesLink, chatRoomData, potd, line,
                   rank, roomAuth, calcVars>>

\* rank assignments of the modelled users
RankConfigs ==
    {rk \in [Users -> Ranks] : rk["u1"] \in {Unranked, Voice}
                               /\ rk["u2"] \in {Moderator, Leader}}

\* override tables: no override, or one user's override in one room
AuthConfigs ==
    LET none == [r \in Rooms |-> [u \in Users |-> NoRank]] IN
    {none, [none EXCEPT !["tech"]["u2"] = Unranked]}

\* the locals of dexsearch at its start
DexFresh ==
    /\ qIndex = 1
    /\ qState = ParseStart
    /\ qDex = <<>>
    /\ qReply = NoReply

\* the locals of dice at its start
DiceFresh ==
    /\ rolls = <<>>
    /\ total = 0
    /\ diceReply = NoRoll

\* no evaluation of dexsearch is in progress
DexIdle ==
    /\ qTargets = <<>>
    /\ qBroadcasting = FALSE
    /\ qForIn = FALSE
    /\ qPc = "idle"
    /\ DexFresh

\* no evaluation of dice is in progress
DiceIdle ==
    /\ diceTarget = [kind |-> "empty", num |-> NaN, faces |-> NaN]
    /\ dicePc = "idle"
    /\ DiceFresh

\* no dispatch is in progress and nothing has been configured
CoreIdle ==
    /\ stack = <<>>
    /\ depth = [u \in Users |-> [r \in Rooms |-> 0]]
    /\ out = <<>>
    /\ sinceBroadcast = [r \in Rooms |-> [u \in Users |-> BroadcastCooldown]]
    /\ rulesLink = [r \in Rooms |-> ""]
    /\ chatRoomData = [r \in Rooms |-> IF r = "lobby" THEN "" ELSE NoData]
    /\ potd = ""
    /\ line = ""

InitCore ==
    /\ CoreIdle
    /\ DexIdle
    /\ DiceIdle

Init ==
    /\ InitCore
    /\ rank \in RankConfigs
    /\ roomAuth \in AuthConfigs

Next ==
    \/ \E user \in Users, room \in Rooms, broadcast \in BOOLEAN, token \in CmdTokens :
         \E target \in Targets(resolve(token)) :
            Dispatch(user, room, broadcast, token, target)
    \/ whois
    \/ dexsearch
    \/ help
    \/ rules
    \/ potd_
    \/ lynn
    \/ recurse
    \/ Finish
    \/ Tick

Spec == Init /\ [][Next]_vars

----------------------------------------------------------------------------
(* The Permission Gate over every rank assignment: the commands that apply
   can, dispatched by users of any rank *)

\* override tables: no override, or one override at or below the global rank
GateAuthConfigs(ranks) ==
    LET none == [r \in Rooms |-> [u \in Users |-> NoRank]] IN
    {a \in {none} \cup {[none EXCEPT ![r][u] = k] :
                          r \in Rooms, u \in Users, k \in Ranks} :
        \A r \in Rooms, u \in Users : a[r][u] <= ranks[u]}

GateTokens == {"whois", "potd"}

InitGate ==
    /\ InitCore
    /\ rank \in [Users -> Ranks]
    /\ roomAuth \in GateAuthConfigs(rank)

NextGate ==
    \/ \E user \in Users, room \in Rooms, broadcast \in BOOLEAN, token \in GateTokens :
         \E target \in Targets(resolve(token)) :
            Dispatch(user, room, broadcast, token, target)
    \/ whois
    \/ potd_
    \/ Finish

SpecGate == InitGate /\ [][NextGate]_vars

----------------------------------------------------------------------------
(* dexsearch evaluated on target texts *)

\* most pieces a target text is split into
MaxTokens == 3

\* the pieces target texts are made of
CoreTokens ==
    {Tok("levitate"), Not("levitate"), Not("static"), Tok("lc"), Tok("cap"), Tok("1"),
     Tok("all"), Tok("mega"), Tok("fire type"), Not("fire type"),
     Tok("flying type"), Tok("surf"), Not("surf"), Tok("ember"),
     Tok("nastyplot"), Tok("tapu")}

\* further pieces, searched one at a time
WideTokens ==
    {Tok(w) : w \in HelpTiers} \cup {Upper(w) : w \in HelpTiers}
    \cup {Not("lc"), Not("cap"), Tok("static"), Not("mega"), Tok("megas"),
          Tok("red"), Not("red"), Tok("2"), Tok("6"), Tok("7"), Not("1"),
          Tok("thunderbolt"), Not("thunderbolt"), Tok("protect"), Not("protect"),
          Not("ember"), Tok("sketch"), Tok("fier type"), Not("tapu"),
          Upper("tapu"), Upper("surf"), Not("flying type"), Tok("struggle")}

\* four different moves
FourMoves == <<Tok("ember"), Tok("surf"), Tok("protect"), Tok("thunderbolt")>>

\* the target texts searched
Queries ==
    UNION {[1 .. n -> CoreTokens] : n \in 1 .. MaxTokens}
    \cup {<<t>> : t \in WideTokens}
    \cup {FourMoves} \cup {FourMoves \o <<t>> : t \in CoreTokens}

InitDex ==
    /\ CoreIdle
    /\ DiceIdle
    /\ rank = [u \in Users |-> Unranked]
    /\ roomAuth = [r \in Rooms |-> [u \in Users |-> NoRank]]
    /\ qTargets \in Queries
    /\ qBroadcasting \in BOOLEAN
    /\ qForIn \in BOOLEAN
    /\ qPc = "parse"
    /\ DexFresh

NextDex ==
    \/ DexParseToken
    \/ DexRestrict
    \/ DexPass
    \/ DexResult

SpecDex == InitDex /\ [][NextDex]_vars

----------------------------------------------------------------------------
(* dice evaluated on target texts *)

InitDice ==
    /\ CoreIdle
    /\ DexIdle
    /\ rank = [u \in Users |-> Unranked]
    /\ roomAuth = [r \in Rooms |-> [u \in Users |-> NoRank]]
    /\ diceTarget \in DiceTargets
    /\ dicePc = "start"
    /\ DiceFresh

NextDice ==
    \/ DiceStart
    \/ DiceRoll
    \/ DiceReply

SpecDice == InitDice /\ [][NextDice]_vars

----------------------------------------------------------------------------
(* Properties *)

\* the messages of one kind among the outbound messages
OfKind(kind) == SelectSeq(out, LAMBDA m : m.kind = kind)

\* the messages the invocation at one level has sent
AtLevel(i) == SelectSeq(out, LAMBDA m : m.level = i)

\* number of dispatches in progress for an actor+room pair
InProgress(user, room) ==
    Cardinality({i \in 1 .. Len(stack) : stack[i].user = user /\ stack[i].room = room})

\* C1: with a depth limit of 10 the 11th nested self-dispatch is refused: no
\* context is ever created for it, so its handler body never runs, and the
\* actor gets exactly one notice, sent by the 10th nested invocation.
C1_RecursionLimit ==
    /\ Len(stack) <= MaxParseRecursion + 1
    /\ Len(OfKind("recursion")) <= 1
    /\ (/\ Len(stack) = MaxParseRecursion + 1
        /\ Top.cmd \in SelfDispatching
        /\ Top.pc = "done")
       => /\ Len(OfKind("recursion")) = 1
          /\ OfKind("recursion")[1].to = Top.user
          /\ OfKind("recursion")[1].level = MaxParseRecursion + 1

C1_Witness ==
    /\ Len(stack) = MaxParseRecursion + 1
    /\ Top.pc = "done"
    /\ Len(OfKind("recursion")) = 1
    /\ \A i \in 1 .. Len(stack) : stack[i].user = stack[1].user /\ stack[i].room = stack[1].room

\* C2: the re-entrancy counter of every actor+room pair equals the number of
\* that pair's dispatches in progress, so a dispatch that has finished
\* (normally, refused by the limit, or after a fault) leaves it at the value it
\* had before, and it is 0 when no dispatch is in progress.
C2_CounterRestored ==
    \A u \in Users, r \in Rooms : depth[u][r] = InProgress(u, r)

\* a nested dispatch has finished and the counter is back at 1
C2_Witness ==
    /\ Len(stack) = 1
    /\ Top.cmd = "dexsearch"
    /\ Top.target = ""
    /\ Top.pc = "done"
    /\ Len(AtLevel(2)) > 0
    /\ depth[Top.user][Top.room] = 1

\* C3: an invocation becomes Broadcasting only in the step of its
\* canBroadcast check, and only if it was invoked with the broadcast sigil,
\* the gate grants the actor broadcast for the room and the cooldown of that
\* room/user has elapsed; a context is never created Broadcasting and an
\* invocation made with the private sigil never becomes Broadcasting.
C3_BroadcastTransition ==
    [][\A i \in 1 .. Len(stack') :
          stack'[i].broadcasting =>
             /\ i <= Len(stack)
             /\ stack[i].broadcast
             /\ \/ stack[i].broadcasting
                \/ /\ stack[i].pc = "start"
                   /\ can(stack[i].user, "broadcast", NoUser, stack[i].room)
                   /\ sinceBroadcast[stack[i].room][stack[i].user] >= BroadcastCooldown]_vars

\* an invocation has become Broadcasting for a user who broadcast before
C3_Witness ==
    /\ stack # <<>>
    /\ Top.broadcasting
    /\ Top.pc = "body"
    /\ \E r \in Rooms : r # Top.room /\ sinceBroadcast[r][Top.user] < BroadcastCooldown

\* C4: once an invocation is Broadcasting it stays Broadcasting in every later
\* step in which it still exists, also across replies and across a nested
\* self-dispatch and its return.
C4_BroadcastMonotonic ==
    [][\A i \in 1 .. Len(stack) :
          (i <= Len(stack') /\ stack[i].broadcasting) => stack'[i].broadcasting]_vars

\* a Broadcasting dexsearch whose nested help dispatch has returned
C4_Witness ==
    /\ Len(stack) = 1
    /\ Top.cmd = "dexsearch"
    /\ Top.broadcasting
    /\ Top.pc = "done"
    /\ Len(AtLevel(2)) = HelpLines("dexsearch")

\* the handlers that start with: if (!this.canBroadcast()) return;
Gated(f) == f.cmd \in {"dexsearch", "lynn"} \/ (f.cmd = "rules" /\ f.target = "")

\* the canBroadcast check of f fails
BroadcastRefused(f) ==
    /\ f.broadcast
    /\ ~(/\ can(f.user, "broadcast", NoUser, f.room)
         /\ sinceBroadcast[f.room][f.user] >= BroadcastCooldown)

\* C5: when the canBroadcast check of a handler fails, that step sends one
\* denial notice to the actor and changes no room or configuration state; the
\* handler has then returned, having sent nothing else, and no further
\* dispatch is started for it.
C5_BroadcastDenied ==
    /\ [][(/\ stack # <<>>
           /\ Top.pc = "start"
           /\ Gated(Top)
           /\ BroadcastRefused(Top)
           /\ stack' # stack)
          => /\ Len(out') = Len(out) + 1
             /\ out'[Len(out')].kind = "nobroadcast"
             /\ out'[Len(out')].to = Top.user
             /\ SubSeq(out', 1, Len(out)) = out
             /\ stack' = SetTop([Top EXCEPT !.pc = "done"])
             /\ UNCHANGED <<depth, sinceBroadcast, rulesLink, chatRoomData, potd>>]_vars
    /\ [](\A i \in 1 .. Len(stack) :
            (/\ Gated(stack[i])
             /\ stack[i].broadcast
             /\ ~stack[i].broadcasting
             /\ stack[i].pc # "start")
            => /\ stack[i].pc = "done"
               /\ Len(stack) = i
               /\ Len(AtLevel(i)) = 1
               /\ AtLevel(i)[1].kind = "nobroadcast")

\* a broadcast refused because of the cooldown
C5_Witness ==
    /\ Len(stack) = 1
    /\ Top.pc = "done"
    /\ Top.broadcast
    /\ out = <<Notice(Top, "nobroadcast", "cooldown")>>

\* C6: a reply sent by an invocation that is Broadcasting goes to the room and
\* into its visible history; a reply sent by an invocation that is Private goes
\* to the invoking actor only.
C6_ReplyAudience ==
    [][\A k \in 1 .. Len(out') :
          (k > Len(out) /\ out'[k].kind = "reply") =>
             LET f == stack[out'[k].level] IN
             IF f.broadcasting
             THEN out'[k].to = f.room /\ out'[k].logged
             ELSE out'[k].to = f.user /\ ~out'[k].logged]_vars

\* a Broadcasting invocation has replied to the room
C6_Witness ==
    /\ stack # <<>>
    /\ Top.broadcasting
    /\ Top.pc = "done"
    /\ \E k \in 1 .. Len(out) :
          out[k].kind = "reply" /\ out[k].to = Top.room /\ out[k].logged

\* the keys of the command table
Keys == Handlers \cup DOMAIN Aliases \cup SelfDispatching

\* C7: a line whose command token is not a key of the command table is a
\* silent no-op: no context is created, nothing is sent, and the counter, the
\* broadcast state and the room and configuration state stay as they were.
C7_UnknownSilent ==
    /\ []((line # "" /\ line \notin Keys) =>
            /\ stack = <<>>
            /\ out = <<>>
            /\ \A u \in Users, r \in Rooms : depth[u][r] = 0)
    /\ [][(line' # line /\ line' # "" /\ line' \notin Keys) =>
            UNCHANGED <<stack, depth, out, sinceBroadcast, rulesLink,
                        chatRoomData, potd>>]_vars

C7_Witness ==
    /\ line = "frobnicate"
    /\ \E r \in Rooms, u \in Users : sinceBroadcast[r][u] < BroadcastCooldown

\* C8: every string entry of the command table names a function entry, so a
\* line whose token is an alias is dispatched to that handler.
C8_AliasesResolve ==
    line \in DOMAIN Aliases =>
        /\ Aliases[line] \in Handlers
        /\ stack # <<>>
        /\ stack[1].cmd = Aliases[line]

\* C9: unless the actor holds the owner rank, can is false for a target of
\* equal or higher rank, whatever the capability and the room; so when A may
\* act on T and outranks T, T may not act on A.  whois shows the alts section
\* only under these conditions.
C9_RankOrder ==
    /\ \A a \in Users, t \in Users, p \in Permissions, r \in Rooms \cup {NoRoom} :
          /\ (rank[a] # Owner /\ rank[t] >= rank[a]) => ~can(a, p, t, r)
          /\ (can(a, p, t, r) /\ rank[a] > rank[t]) => ~can(t, p, a, r)
    /\ \A i \in 1 .. Len(stack) :
          (/\ stack[i].cmd = "whois"
           /\ stack[i].pc = "done"
           /\ \E k \in 1 .. Len(out) : out[k].level = i /\ out[k].what = "alts")
          => \/ rank[stack[i].user] = Owner
             \/ rank[targetUserOrSelf(stack[i])] < rank[stack[i].user]

\* a moderator or higher, not an owner, has asked whois of another user of
\* the same rank and got no alts section
C9_Witness ==
    /\ stack # <<>>
    /\ Top.cmd = "whois"
    /\ Top.pc = "done"
    /\ Top.target \in Users
    /\ Top.target # Top.user
    /\ rank[Top.target] = rank[Top.user]
    /\ rank[Top.user] \in Moderator .. Admin
    /\ \A k \in 1 .. Len(out) : out[k].what # "alts"

\* C10: an invocation gets at most one access-denied notice, and one that got
\* it has sent nothing else and has returned; potd changes the configuration
\* only for an actor who holds the capability.  whois, which asks user.can,
\* gets no notice and shows the alts section exactly when can is true.
C10_AccessDenied ==
    /\ [](\A i \in 1 .. Len(stack) :
            /\ (\E k \in 1 .. Len(out) : out[k].level = i /\ out[k].kind = "denied")
               => /\ Len(AtLevel(i)) = 1
                  /\ AtLevel(i)[1].to = stack[i].user
                  /\ stack[i].pc = "done"
                  /\ Len(stack) = i
            /\ (stack[i].cmd = "potd" /\ stack[i].pc = "done")
               => IF can(stack[i].user, "potd", NoUser, NoRoom)
                  THEN \A k \in 1 .. Len(out) : out[k].kind # "denied"
                  ELSE AtLevel(i) = <<[level |-> i, kind |-> "denied", what |-> "potd",
                                       to |-> stack[i].user, logged |-> FALSE]>>
            /\ (stack[i].cmd = "whois" /\ stack[i].pc = "done"
                /\ targetUserOrSelf(stack[i]) # NoUser)
               => /\ \A k \in 1 .. Len(out) : out[k].kind # "denied"
                  /\ (\E k \in 1 .. Len(out) : out[k].what = "alts")
                     <=> can(stack[i].user, "alts", targetUserOrSelf(stack[i]), NoRoom))
    /\ [][(potd' # potd) =>
            /\ stack # <<>>
            /\ Top.cmd = "potd"
            /\ can(Top.user, "potd", NoUser, NoRoom)]_vars

\* potd refused: one notice, the configuration as it was
C10_Witness ==
    /\ Len(stack) = 1
    /\ Top.cmd = "potd"
    /\ Top.target = "pikachu"
    /\ Top.pc = "done"
    /\ potd = ""
    /\ out = <<AccessDenied(Top)>>

\* the outermost dispatch f, now complete, ended in an error: a refused
\* broadcast or capability, a target that names nobody or nothing, a text
\* that cannot be parsed, the recursion limit, or a fault of the handler
EndsInError(f) ==
    \/ Gated(f) /\ f.broadcast /\ ~f.broadcasting
    \/ f.cmd = "potd" /\ ~can(f.user, "potd", NoUser, NoRoom)
    \/ /\ f.cmd = "rules"
       /\ f.target # ""
       /\ (~can(f.user, "roommod", NoUser, f.room) \/ StrLen(f.target) > 80)
    \/ f.cmd = "whois" /\ targetUserOrSelf(f) = NoUser
    \/ f.cmd = "help" /\ f.target # "dexsearch"
    \/ f.cmd = "dexsearch" /\ f.target # "" /\ ~DexKnown(f.target)
    \/ f.cmd = "dexsearch" /\ DexKnown(f.target) /\ DexResults(f.target) > DexOutput
    \/ f.cmd \in SelfDispatching

RequiredTypes(searches) ==
    {searches.types[k].name : k \in {j \in 1 .. Len(searches.types) : searches.types[j].val}}

\* the types of a catalog entry
TypesOf(id) == {getTemplate(id).types[k] : k \in 1 .. Len(getTemplate(id).types)}

\* the types pass is the second pass
TypesTurn == CHOOSE k \in 1 .. Len(PassOrder) : PassOrder[k] = "types"

\* C12: when the search marks exactly two types as required, the types pass
\* keeps exactly the entries of the working set that have both of them: an
\* entry with only one of them, or with a single type, is removed.
C12_BothTypes ==
    [][(/\ qPc = "filter"
        /\ qIndex = TypesTurn
        /\ Cardinality(RequiredTypes(qState.searches)) = 2)
       => qDex' = SelectSeq(qDex, LAMBDA e :
                     RequiredTypes(qState.searches) \subseteq TypesOf(e.id))]_vars

\* the types pass has run for two required types: it has kept an entry and
\* removed entries with one of the two types, among them a single-typed one
C12_Witness ==
    /\ qPc = "filter"
    /\ qIndex = TypesTurn + 1
    /\ RequiredTypes(qState.searches) = {"Fire", "Flying"}
    /\ \E k \in 1 .. Len(qDex) : qDex[k].id = "charizard"
    /\ \A k \in 1 .. Len(qDex) : qDex[k].id \notin {"charmander", "scyther"}
    /\ Legal(getTemplate("charmander"), qState.searches, qState.megaSearch)
    /\ qState.searches.moves = <<>>

\* the catalog entry with a display name
BySpecies(name) ==
    Pokedex[CHOOSE k \in 1 .. Len(Pokedex) : Pokedex[k].species = name]

\* C13: every name in a result list of dexsearch belongs to a catalog entry
\* that passes the legality restriction of the search: its tier is not
\* Illegal, it is of tier CAP only if the cap tier was required, and it
\* matches the mega filter if there is one.
C13_ResultLegal ==
    (qPc = "done" /\ qReply.what = "results")
    => \A k \in 1 .. Len(qReply.names) :
          Legal(BySpecies(qReply.names[k]), qState.searches, qState.megaSearch)

\* what a piece names, by the tables the parser consults
NamesAbility(tok) == tok.word \in DOMAIN Abilities
NamesType(tok) == HasTypeSuffix(tok.word) /\ TypeWord(tok.word) \in TypeChart
NamesMove(tok) == tok.word \in DOMAIN Movedex

\* the abilities, types and moves the pieces of a target text name
Named(targets, Names(_)) ==
    {targets[i].word : i \in {j \in 1 .. Len(targets) : Names(targets[j])}}

LimitMessages == {"oneability", "twotypes", "fourmoves"}

\* C14 as stated: a target text that names more than one ability, more than
\* two types or more than four moves ends with a limit message and without
\* any filtering (stated for target texts that hold nothing but abilities,
\* types and moves, so that no other failure comes first).
C14_LimitsAsStated ==
    (/\ qPc = "done"
     /\ \A i \in 1 .. Len(qTargets) :
           NamesAbility(qTargets[i]) \/ NamesType(qTargets[i]) \/ NamesMove(qTargets[i])
     /\ \/ Cardinality(Named(qTargets, NamesAbility)) > 1
        \/ Cardinality(Named(qTargets, NamesType)) > 2
        \/ Cardinality(Named(qTargets, NamesMove)) > 4)
    => qReply.what \in LimitMessages /\ qDex = <<>>

\* C14, amended: the parse fails with a limit message exactly when a piece
\* without '!' names an ability while one ability is marked required, a type
\* while two types are, or a move while four moves are; a piece with '!' is
\* exempt.  The command then ends with the message of that limit, the search
\* as it was, and no filtering.
C14_Limits ==
    /\ [][(qPc = "parse" /\ qIndex <= Len(qTargets)) =>
            LET tok == qTargets[qIndex]
                s == qState.searches
            IN  /\ qReply'.what = "oneability"
                   <=> NamesAbility(tok) /\ ~tok.bang /\ Count(s.ability, TRUE) = 1
                /\ qReply'.what = "twotypes"
                   <=> NamesType(tok) /\ ~tok.bang /\ Count(s.types, TRUE) = 2
                /\ qReply'.what = "fourmoves"
                   <=> NamesMove(tok) /\ ~tok.bang /\ Count(s.moves, TRUE) = 4
                /\ qReply'.what \in LimitMessages
                   => qPc' = "done" /\ qState'.searches = s]_vars
    /\ [](qReply.what \in LimitMessages => qPc = "done" /\ qDex = <<>>)

\* a fifth move has been refused, and so has a second required ability
\* after an excluded one
C14_Witness ==
    /\ qPc = "done"
    /\ \/ qReply.what = "fourmoves" /\ Len(qTargets) = 5
       \/ /\ qReply.what = "oneability"
          /\ qTargets = <<Not("static"), Tok("levitate"), Tok("levitate")>>

\* a piece that matches no search category and is no modifier
Unknown(tok) ==
    /\ ~NamesAbility(tok) /\ ~NamesType(tok) /\ ~NamesMove(tok)
    /\ tok.word \notin allTiers \cup allColours \cup {"all", "mega", "megas"}
    /\ tok.word \notin {"1", "2", "3", "4", "5", "6"}

\* the first piece of a target text that is unknown
FirstUnknown(targets) ==
    targets[CHOOSE i \in 1 .. Len(targets) :
               /\ Unknown(targets[i])
               /\ \A j \in 1 .. i - 1 : ~Unknown(targets[j])]

\* C15: a target text with a piece that matches no category ends without a
\* result list, and the message that reports the unknown piece names that
\* piece as the user typed it (compared here without regard to upper case
\* and to a leading '!', which the parser drops on purpose).
C15_UnknownNamed ==
    (qPc = "done" /\ \E i \in 1 .. Len(qTargets) : Unknown(qTargets[i]))
    => /\ qReply.what \notin {"results", "nonefound", "ReferenceError"}
       /\ qReply.names = <<>>
       /\ qReply.what = "notfound"
          => qReply.token = slice1(toLowerCase(FirstUnknown(qTargets)))

\* the search has run all its passes and replied for the entries that match
Searched == qPc = "done" /\ qIndex > Len(PassOrder) /\ qState.reply = NoReply

\* the display names of the entries that match
Matches == {getTemplate(qDex[k].id).species : k \in 1 .. Len(qDex)}

NameBefore(a, b) ==
    \E i, j \in 1 .. Len(SortedSpecies) :
        i < j /\ SortedSpecies[i] = a /\ SortedSpecies[j] = b

\* C17: when 'all' was requested, or at most 10 entries match, the reply
\* lists every matching entry exactly once, in lexicographic order of the
\* display names, and carries no hint about further matches.
C17_SortedComplete ==
    (Searched /\ Len(qDex) > 0 /\ (qState.showAll \/ Len(qDex) <= DexOutput))
    => /\ qReply.what = "results"
       /\ Len(qReply.names) = Cardinality(Matches)
       /\ {qReply.names[k] : k \in 1 .. Len(qReply.names)} = Matches
       /\ \A k \in 1 .. Len(qReply.names) - 1 :
             NameBefore(qReply.names[k], qReply.names[k + 1])
       /\ qReply.more = 0

\* 'all' has listed more than 10 names, which the catalog holds in another
\* order
C17_Witness ==
    /\ Searched
    /\ qState.showAll
    /\ Len(qReply.names) > DexOutput
    /\ qReply.names # [k \in 1 .. Len(qDex) |-> getTemplate(qDex[k].id).species]

\* a target text with the pieces i and i + 1 exchanged
Swap(targets, i) ==
    [k \in 1 .. Len(targets) |->
        IF k = i THEN targets[i + 1] ELSE IF k = i + 1 THEN targets[i] ELSE targets[k]]

\* C18: the outcome of dexsearch (the error reply, or the list of the
\* matching entries) is the same for the same pieces in another order; it is
\* enough to exchange two neighbours.  Stated for target texts that are
\* searched without a parse failure, do not ask for 'all' and name nothing
\* twice.
C18_OrderFree ==
    (/\ Searched
     /\ \A i \in 1 .. Len(qTargets) : qTargets[i].word # "all"
     /\ \A i, j \in 1 .. Len(qTargets) :
           qTargets[i].word = qTargets[j].word => i = j)
    => \A i \in 1 .. Len(qTargets) - 1 :
          DexSearch(Swap(qTargets, i), qBroadcasting, qForIn) = qReply

\* C19: each tier the help text lists is accepted as a tier: typed alone, in
\* lower or upper case, it is recorded as a required tier and the search
\* runs.
C19_HelpTiersAccepted ==
    (/\ qPc = "done"
     /\ Len(qTargets) = 1
     /\ qTargets[1].word \in HelpTiers
     /\ ~qTargets[1].bang)
    => /\ IsTrue(qState.searches.tier, qTargets[1].word)
       /\ qReply.what # "notfound"

\* the sum of a sequence of numbers
RECURSIVE Sum(_)
Sum(seq) == IF seq = <<>> THEN 0 ELSE seq[1] + Sum(Tail(seq))

\* C20: every number dice reports lies between 1 and the chosen maximum: a
\* single roll between 1 and 6 without a target and between 1 and N for the
\* target N; each of the X rolls of XdY between 1 and Y, with their sum as
\* the total.
C20_InRange ==
    dicePc = "done"
    => /\ diceReply.what = "number"
          => /\ 1 <= diceReply.rand
             /\ diceReply.rand <= diceReply.maxRoll
             /\ diceTarget.kind = "empty" => diceReply.maxRoll = 6
             /\ diceTarget.kind = "number" => diceReply.maxRoll = diceTarget.num
       /\ diceReply.what = "rolls"
          => /\ Len(diceReply.rolls) = diceReply.num
             /\ \A k \in 1 .. Len(diceReply.rolls) :
                   1 <= diceReply.rolls[k] /\ diceReply.rolls[k] <= diceReply.faces
             /\ diceReply.total = Sum(diceReply.rolls)

----------------------------------------------------------------------------
(* The rules link *)

\* C21: every rules link stored by /rules is under 80 characters long: a
\* target of 80 or more characters is answered with the too-long error and
\* leaves the stored link as it was
C21_LinkUnder80 ==
    /\ [](\A r \in Rooms : StrLen(rulesLink[r]) < 80)
    /\ [][\A r \in Rooms :
            (/\ Running("rules", "set")
             /\ Top.room = r
             /\ StrLen(Top.target) >= 80)
            => /\ rulesLink'[r] = rulesLink[r]
               /\ out' = Append(out, sendReply(Top, "toolong"))]_vars

----------------------------------------------------------------------------
(* The tier pass *)

\* the tier pass is the fourth pass
TierTurn == CHOOSE k \in 1 .. Len(PassOrder) : PassOrder[k] = "tier"

\* C22: when the tier category requires lc (and names no other tier), an
\* entry of the working set survives the tier pass if and only if it is
\* LC-legal by the derived criteria (it has a later evolution, has no
\* earlier evolution and is not on the LC banlist), whatever tier is stored
\* for it.
C22_LcOverride ==
    [][(/\ qPc = "filter"
        /\ qIndex = TierTurn
        /\ qState.searches.tier = <<[name |-> "lc", val |-> TRUE]>>)
       => qDex' = SelectSeq(qDex, LAMBDA e : isLC(getTemplate(e.id)))]_vars

----------------------------------------------------------------------------
(* The moves pass *)

\* the moves the search marks excluded, and those it marks required
ExcludedMoves(searches) ==
    {searches.moves[k].name : k \in {j \in 1 .. Len(searches.moves) : ~searches.moves[j].val}}

RequiredMoves(searches) ==
    {searches.moves[k].name : k \in {j \in 1 .. Len(searches.moves) : searches.moves[j].val}}

\* C23: no entry that can learn a move the search marks excluded is named in
\* the result list of dexsearch, whatever moves are required or excluded and
\* also when the entry is an evolutionary relative of a listed entry.
C23_ExcludedMoves ==
    (qPc = "done" /\ qReply.what = "results")
    => \A k \in 1 .. Len(qReply.names) :
          \A move \in ExcludedMoves(qState.searches) :
             ~canLearn(LearnsetOf(BySpecies(qReply.names[k]).id), move)

\* the moves pass is the first pass
MovesTurn == CHOOSE k \in 1 .. Len(PassOrder) : PassOrder[k] = "moves"

\* the moves pass is about to run for a search that names a move
MovesPassNext ==
    /\ qPc = "filter"
    /\ qIndex = MovesTurn
    /\ qState.searches.moves # <<>>

\* the entry can learn a move the search marks excluded
LearnsExcluded(id, searches) ==
    \E move \in ExcludedMoves(searches) : canLearn(LearnsetOf(id), move)

\* the evolutions listed for a catalog entry
EvosOf(id) == {getTemplate(id).evos[j] : j \in 1 .. Len(getTemplate(id).evos)}

\* C24: after the moves pass, every evolution listed for an entry of the
\* working set is in the working set too, whatever its own learn-set, unless
\* the evolution can learn an excluded move; this holds as well for the
\* evolutions of entries that the pass itself pulled in.
C24_EvolutionsPulledIn ==
    [][MovesPassNext
       => \A k \in 1 .. Len(qDex') :
             \A evo \in EvosOf(qDex'[k].id) :
                \/ \E j \in 1 .. Len(qDex') : qDex'[j].id = evo
                \/ LearnsExcluded(evo, qState.searches)]_vars

\* the entry can learn the move: the move is in its learn-set, or in its base
\* form's when it has none of its own, and a learn-set with Sketch grants
\* every move but Chatter, Struggle and Magikarp's Revenge
Learns(id, move) ==
    LET own == getTemplate(id)
        from == IF own.hasLearnset THEN own ELSE getTemplate(own.baseSpecies)
    IN  \/ MoveId(move) \in from.learnset
        \/ /\ "sketch" \in from.learnset
           /\ move \notin {"Chatter", "Struggle", "Magikarp's Revenge"}

\* the entries and all their later evolutions
RECURSIVE WithEvolutions(_)
WithEvolutions(ids) ==
    LET more == ids \cup UNION {EvosOf(id) : id \in ids}
    IN  IF more = ids THEN ids ELSE WithEvolutions(more)

\* the entries of a working set that can learn every required move
LearnAll(dex, searches) ==
    {dex[k].id : k \in {j \in 1 .. Len(dex) :
                          \A move \in RequiredMoves(searches) : Learns(dex[j].id, move)}}

----------------------------------------------------------------------------
(* The types pass with fewer than two required types *)

\* the types the search marks excluded
ExcludedTypes(searches) ==
    {searches.types[k].name : k \in {j \in 1 .. Len(searches.types) : ~searches.types[j].val}}

\* C26: when the search names a type and marks fewer than two types
\* required, the types pass removes every entry that has an excluded type,
\* removes every entry that has none of the required types when a type is
\* required, and keeps every other entry of the working set.
C26_FewerThanTwoTypes ==
    [][(/\ qPc = "filter"
        /\ qIndex = TypesTurn
        /\ qState.searches.types # <<>>
        /\ Cardinality(RequiredTypes(qState.searches)) < 2)
       => qDex' = SelectSeq(qDex, LAMBDA e :
                     /\ TypesOf(e.id) \cap ExcludedTypes(qState.searches) = {}
                     /\ \/ RequiredTypes(qState.searches) = {}
                        \/ TypesOf(e.id) \cap RequiredTypes(qState.searches) # {})]_vars

\* the types pass has run for one required and one excluded type: it has
\* kept an entry with the required type, removed one that has both types and
\* one that has neither
C26_Witness ==
    /\ qPc = "filter"
    /\ qIndex = TypesTurn + 1
    /\ RequiredTypes(qState.searches) = {"Flying"}
    /\ ExcludedTypes(qState.searches) = {"Fire"}
    /\ qState.searches.moves = <<>>
    /\ qState.megaSearch = "null"
    /\ \E k \in 1 .. Len(qDex) : qDex[k].id = "scyther"
    /\ \A k \in 1 .. Len(qDex) : qDex[k].id \notin {"charizard", "squirtle"}

----------------------------------------------------------------------------
(* The frame of /rules *)

\* C27: a room's rules link and its persisted copy change only in a step of
\* a /rules invocation for that room with a non-empty target whose actor
\* holds roommod for the room; an invocation whose permission check fails or
\* whose target is too long leaves both as they were; and after each update
\* the persisted copy, when the room has persisted data, equals the room's
\* rules link.
C27_RulesFrame ==
    [][\A r \in Rooms :
          /\ (rulesLink'[r] # rulesLink[r] \/ chatRoomData'[r] # chatRoomData[r])
             => /\ Running("rules", "set")
                /\ Top.room = r
                /\ Top.target # ""
                /\ can(Top.user, "roommod", NoUser, r)
          /\ (/\ stack # <<>>
              /\ Top.cmd = "rules"
              /\ \/ ~can(Top.user, "roommod", NoUser, Top.room)
                 \/ StrLen(Top.target) > 80)
             => /\ rulesLink' = rulesLink
                /\ chatRoomData' = chatRoomData
          /\ (/\ Running("rules", "set")
              /\ Top.room = r
              /\ StrLen(Top.target) <= 80)
             => /\ rulesLink'[r] = trim(Top.target)
                /\ chatRoomData[r] # NoData => chatRoomData'[r] = rulesLink'[r]
                /\ chatRoomData[r] = NoData => chatRoomData'[r] = NoData]_vars

\* /rules has stored a link typed with surrounding blanks in a room that has
\* persisted data: the room and the persisted copy hold the trimmed link
C27_Witness ==
    /\ Running("rules", "done")
    /\ Top.target = " url "
    /\ Top.room = "lobby"
    /\ rulesLink["lobby"] = "url"
    /\ chatRoomData["lobby"] = "url"
    /\ \E k \in 1 .. Len(out) : out[k].what = "ruleslinkset"

----------------------------------------------------------------------------
(* 'all' in a Broadcasting search *)

\* the target text has the piece 'all'
IncludesAll == \E i \in 1 .. Len(qTargets) : toLowerCase(qTargets[i]).word = "all"

\* the replies with which the parsing loop returns
ParseErrors == {"allbroadcast", "notfound"} \cup LimitMessages

\* C28: a dexsearch that is Broadcasting and whose target text has the piece
\* 'all' never filters and never replies with a result list: it ends with
\* an error reply of the parsing loop.
C28_AllNotBroadcast ==
    (qBroadcasting /\ IncludesAll)
    => /\ qPc # "filter"
       /\ qDex = <<>>
       /\ qReply.what # "results"
       /\ qPc = "done" => qReply.what \in ParseErrors

\* a Broadcasting search has parsed a piece and then stopped at 'all'
C28_Witness ==
    /\ qBroadcasting
    /\ qPc = "done"
    /\ qReply = Message("allbroadcast")
    /\ qIndex > 2
    /\ qTargets[qIndex - 1].word = "all"
    /\ qIndex <= Len(qTargets)
    /\ qState.searches # NoSearches
    /\ qDex = <<>>

----------------------------------------------------------------------------
(* The IP section of whois *)

\* C29: a reply with the target's IP addresses is sent only by a whois
\* invocation that is not Broadcasting and whose actor is the target or
\* holds the ip capability over the target; in every other case no reply of
\* the invocation carries them.
C29_IpShown ==
    [][\A k \in 1 .. Len(out') :
          (k > Len(out) /\ out'[k].what = "ip")
          => /\ Running("whois", "start")
             /\ ~Top.broadcasting
             /\ targetUserOrSelf(Top) # NoUser
             /\ \/ Top.user = targetUserOrSelf(Top)
                \/ can(Top.user, "ip", targetUserOrSelf(Top), NoRoom)]_vars

\* whois has shown the IP section to an actor who looked up themselves and
\* does not hold the ip capability
C29_Witness ==
    /\ Running("whois", "done")
    /\ targetUserOrSelf(Top) = Top.user
    /\ ~can(Top.user, "ip", Top.user, NoRoom)
    /\ \E k \in 1 .. Len(out) :
          out[k].what = "ip" /\ out[k].to = Top.user /\ out[k].level = Len(stack)

----------------------------------------------------------------------------
(* The final result against the whole search *)

\* the names a category marks required, and those it marks excluded
Required(cat) == {cat[k].name : k \in {j \in 1 .. Len(cat) : cat[j].val}}
Excluded(cat) == {cat[k].name : k \in {j \in 1 .. Len(cat) : ~cat[j].val}}

\* a value is none of the excluded ones and, when any is required, one of
\* the required ones
Fits(cat, value) ==
    /\ value \notin Excluded(cat)
    /\ Required(cat) # {} => value \in Required(cat)

\* the entry satisfies the type predicates: both types when two are
\* required; otherwise no excluded type, and a required one if there is one
TypesOk(t, searches) ==
    LET has == {t.types[k] : k \in 1 .. Len(t.types)} IN
    IF Cardinality(Required(searches.types)) = 2
    THEN Required(searches.types) \subseteq has
    ELSE /\ has \cap Excluded(searches.types) = {}
         /\ Required(searches.types) # {} => has \cap Required(searches.types) # {}

\* the entry satisfies the tier predicates, LC being decided by the derived
\* criteria
TierOk(t, searches) ==
    /\ LowerCase(t.tier) \notin Excluded(searches.tier)
    /\ "lc" \in Excluded(searches.tier) => ~isLC(t)
    /\ "lc" \in Required(searches.tier) => isLC(t)
    /\ Required(searches.tier) # {}
       => \/ LowerCase(t.tier) \in Required(searches.tier)
          \/ ("lc" \in Required(searches.tier) /\ isLC(t))

\* the entry has every required ability and no excluded one
AbilityOk(t, searches) ==
    /\ Required(searches.ability) \subseteq t.abilities
    /\ Excluded(searches.ability) \cap t.abilities = {}

\* C30: every entry named in the final result of dexsearch, also one that
\* the moves pass pulled in as an evolutionary relative, satisfies every
\* type, tier, generation, colour and ability predicate of the search.
C30_AllPredicates ==
    (qPc = "done" /\ qReply.what = "results")
    => \A k \in 1 .. Len(qReply.names) :
          LET t == BySpecies(qReply.names[k]) IN
          /\ TypesOk(t, qState.searches)
          /\ TierOk(t, qState.searches)
          /\ Fits(qState.searches.gen, GenString(t.gen))
          /\ Fits(qState.searches.color, LowerCase(t.color))
          /\ AbilityOk(t, qState.searches)

\* a search for a move and a generation has listed an entry that the moves
\* pass pulled in: Pikachu does not learn the move, and Pichu, which does,
\* is of another generation
C30_Witness ==
    /\ qPc = "done"
    /\ qReply.what = "results"
    /\ RequiredMoves(qState.searches) = {"Nasty Plot"}
    /\ Required(qState.searches.gen) = {"1"}
    /\ \E k \in 1 .. Len(qReply.names) : qReply.names[k] = "Pikachu"
    /\ \A k \in 1 .. Len(qReply.names) : qReply.names[k] # "Pichu"

====
